---- MODULE Spec2Model ----
(***************************************************************************)
(* TimeFly VS Code extension: the durable queue (services/storage.ts), the *)
(* tracking context (services/pulse.ts) and the sync engine                *)
(* (services/sync.ts), modelled as state machines over one key-value       *)
(* store.                                                                  *)
(*                                                                         *)
(* Execution model.  The extension host is a single-threaded event loop:   *)
(* the code between two awaits / promise callbacks runs without            *)
(* interruption, so every action below is one such synchronous segment.    *)
(* vscode.Memento.update applies the new value to the in-memory state the  *)
(* moment it is called and returns a promise for the flush; get() reads    *)
(* that in-memory state.  The store is therefore one record that every     *)
(* segment reads and writes atomically.                                    *)
(*                                                                         *)
(* Time is in milliseconds, as Date.now().  The calendar date string       *)
(* YYYY-MM-DD is represented by the day number now \div DAY_MS.            *)
(***************************************************************************)
EXTENDS Integers, Sequences, FiniteSets, TLC

VARIABLES
    now,        \* Date.now()
    ticks,      \* number of clock advances so far (bounded)
    storage,    \* the vscode.Memento: one field per storage key
    apiKey,     \* TRUE iff globalState holds a well-formed API key
    isSyncing,  \* sync.ts module-level single-flight flag
    runs,       \* one record per performSync() invocation
    appends,    \* number of items trackers have queued so far (bounded)
    ctx,        \* pulse service: currentContext (PulseContext)
    tr,         \* pulse service: the trackActivity call(s) in progress
    th,         \* history of the tracking context (observer only)
    wr,         \* storage service callers of saveTodayTotal/getTodayTotal
    sh,         \* history of the today-total keys (observer only)
    ag,         \* aggregatePulses applied to a drawn context: input and flag
    lc,         \* calculateLineChanges applied to drawn contents: input, result
    sc          \* sync service: syncInterval and the interval timers that exist

vars == <<now, ticks, storage, apiKey, isSyncing, runs, appends, ctx, tr, th, wr, sh, ag, lc, sc>>

clockVars == <<now, ticks>>
syncVars  == <<apiKey, isSyncing, runs, appends>>
trackVars == <<ctx, tr, th>>
storeVars == <<wr, sh>>

-----------------------------------------------------------------------------
(* Program constants *)

\* pulse.ts: const IDLE_THRESHOLD = 120000
IDLE_THRESHOLD == 120000
\* pulse.ts: const AGGREGATION_INTERVAL = 30000
AGGREGATION_INTERVAL == 30000
\* extension.ts: const ACTIVITY_THRESHOLD = 2000
ACTIVITY_THRESHOLD == 2000
\* config.ts: CONFIG.SYNC.MAX_RETRY_ATTEMPTS
MAX_RETRY_ATTEMPTS == 1
\* config.ts: CONFIG.SYNC.INITIAL_BACKOFF
INITIAL_BACKOFF == 1000
\* config.ts: CONFIG.SYNC.INTERVAL
SYNC_INTERVAL == 30 * 60 * 1000
\* One calendar day in milliseconds (sync.ts writes it 24 * 60 * 60 * 1000).
DAY_MS == 24 * 60 * 60 * 1000

(* Bounds of the model *)

\* sync.ts: const MAX_BATCH_SIZE = 3000.  The queue of the model holds a
\* handful of items, so the batch size is scaled down with it; every batch
\* computation below is written in terms of this name only.
MAX_BATCH_SIZE == 1
\* Items ever appended to the two durable queues in one behaviour.
MaxQueue == 2
\* performSync() invocations in one behaviour.
MaxRuns == 2
\* Clock advances in one behaviour of the sync engine.
MaxSyncTicks == 1
\* Clock advances / trackActivity calls in one behaviour of the tracker.
MaxTrackTicks == 3
MaxPulses == 3
\* Storage-service callers, calls and clock advances (today-total keys).
NumCallers == 2
MaxCalls == 3
MaxStoreTicks == 2
\* Largest today-total value passed to saveTodayTotal.
MaxTotal == 2
\* Longest pending run handed to aggregatePulses.
MaxRun == 2
\* Longest content (in characters) handed to calculateLineChanges.
MaxLen == 3
MaxRejections == 1
MaxSchedCalls == 3
\* Pulses built from drawn documents.
MaxBuilds == 3
\* trackActivity calls that may overlap.
MaxOverlap == 2
\* Clock advances while two windows share the store.
MaxSharedTicks == 2
\* trackActivity calls of one window.
MaxSharedCalls == 2
\* Distinct times of the entries a clear is applied to.
MaxClearTime == 2
\* Length of the queues and synced lists a clear is applied to.
MaxClearLen == 2

-----------------------------------------------------------------------------
(* Generic helpers *)

Max(a, b) == IF a >= b THEN a ELSE b

RECURSIVE SetMax(_)
SetMax(S) ==
    IF S = {} THEN 0
    ELSE LET x == CHOOSE y \in S : TRUE IN Max(x, SetMax(S \ {x}))

Range(s) == {s[i] : i \in DOMAIN s}

IsPrefix(s, t) == Len(s) <= Len(t) /\ SubSeq(t, 1, Len(s)) = s

\* utils/functional.ts updateObject: { ...obj, ...updates }
updateObject(obj, updates) ==
    [k \in (DOMAIN obj) \cup (DOMAIN updates) |->
        IF k \in DOMAIN updates THEN updates[k] ELSE obj[k]]

\* utils/functional.ts appendToArray: [...arr, item]
appendToArray(arr, item) == Append(arr, item)

-----------------------------------------------------------------------------
(* utils/time.ts *)

calculateElapsedTime(start, end) == Max(0, end - start)

getCurrentDateString(t) == t \div DAY_MS

\* The value of an absent storage key (storage.get returns undefined).
NoDate == -1

hasDayChanged(storedDate, t) ==
    IF storedDate = NoDate THEN TRUE ELSE getCurrentDateString(t) # storedDate

-----------------------------------------------------------------------------
(* services/storage.ts: operations on the store s at time t *)

\* The persisted status before the first updateSyncStatus.
NoStatus == [absent |-> TRUE]

defaultStatus(t) ==
    [lastSyncTime |-> 0, nextSyncTime |-> t + 30 * 60 * 1000, syncCount |-> 0,
     isOnline |-> TRUE, apiStatus |-> "unknown", pendingPulses |-> 0]

\* Mutant: the date marker is renewed but the total is kept.
resetDailyCounters_KeepTotal(s, t) ==
    [s EXCEPT !.todayDate = getCurrentDateString(t), !.lastUpdate = t]

resetDailyCounters(s, t) ==
    [s EXCEPT !.todayTotal = 0, !.todayDate = getCurrentDateString(t),
              !.lastUpdate = t]

checkDayChange(s, t) ==
    IF hasDayChanged(s.todayDate, t) THEN resetDailyCounters(s, t) ELSE s

\* savePulses, the callback after checkDayChange: the transient content
\* field is not part of the pulse records of the model.
savePulsesThen(s, pulses) == [s EXCEPT !.pendingPulses = @ \o pulses]

saveAggregatedPulsesThen(s, pulses) == [s EXCEPT !.aggregatedPulses = @ \o pulses]

\* Mutant: entries are removed when they equal a synced entry by value.
clearSyncedPulses_ByValue(s, syncedPulses) ==
    LET synced == {syncedPulses[i] : i \in DOMAIN syncedPulses}
    IN [s EXCEPT !.pendingPulses = SelectSeq(@, LAMBDA p : p \notin synced)]

clearSyncedPulses(s, syncedPulses) ==
    LET syncedIds == {syncedPulses[i].time : i \in DOMAIN syncedPulses}
    IN [s EXCEPT !.pendingPulses = SelectSeq(@, LAMBDA p : p.time \notin syncedIds)]

clearSyncedAggregatedPulses(s, syncedPulses) ==
    LET syncedIds == {syncedPulses[i].start_time : i \in DOMAIN syncedPulses}
    IN [s EXCEPT !.aggregatedPulses =
            SelectSeq(@, LAMBDA p : p.start_time \notin syncedIds)]

\* Mutant: the stored total is overwritten whenever the new one differs.
saveTodayTotalWrites_Overwrite(total, currentTotal) == total # currentTotal

\* saveTodayTotal, the callback after checkDayChange: compare, then write.
saveTodayTotalWrites(total, currentTotal) == total > currentTotal

saveTodayTotalThen(s, total, t) ==
    IF saveTodayTotalWrites(total, s.todayTotal)
    THEN [s EXCEPT !.todayTotal = total, !.lastUpdate = t]
    ELSE s

getSyncStatus(s, t) ==
    IF s.syncStatus = NoStatus THEN defaultStatus(t) ELSE s.syncStatus

updateSyncStatus(s, status, t) ==
    [s EXCEPT !.syncStatus = updateObject(getSyncStatus(s, t), status)]

\* The store right after createStorageService: checkDayChange has run.
InitStorage(t, total) ==
    [pendingPulses |-> <<>>, aggregatedPulses |-> <<>>, todayTotal |-> total,
     todayDate |-> getCurrentDateString(t), lastUpdate |-> 0,
     syncStatus |-> NoStatus]

-----------------------------------------------------------------------------
(* Values of the variables a specification does not use *)

NoRuns == [r \in 1..MaxRuns |-> [pc |-> "new"]]

NoContext ==
    [pulses |-> <<>>, aggregatedPulses |-> <<>>, todayTotal |-> 0,
     lastActivityTime |-> 0, lastAggregationTime |-> 0, isActive |-> FALSE,
     activeStartTime |-> 0]

SyncUnused  == apiKey = TRUE /\ isSyncing = FALSE /\ runs = NoRuns /\ appends = 0
TrackUnused == ctx = NoContext /\ tr = [pc |-> "idle"] /\ th = [used |-> FALSE]
StoreUnused == wr = <<>> /\ sh = [used |-> FALSE]
AggUnused   == ag = [used |-> FALSE]
DiffUnused  == lc = [used |-> FALSE]
SchedUnused == sc = [used |-> FALSE]

-----------------------------------------------------------------------------
(* SpecStore: the today-total keys under concurrent callers                *)
(* storage.ts saveTodayTotal (112-130), getTodayTotal (132-139),           *)
(* checkDayChange (34-42), resetDailyCounters (21-27)                      *)

Callers == 1..NumCallers

IdleCaller ==
    [pc |-> "idle", total |-> 0, stale |-> FALSE, zeroed |-> FALSE, seen |-> {}]

NoCall ==
    [op |-> "none", stale |-> FALSE, zeroed |-> FALSE, total |-> 0, cmp |-> 0,
     seen |-> {}, changed |-> FALSE]

\* Every caller that is between its call and its callback sees the totals
\* written meanwhile (observer only).
Observe(w, s2) ==
    [c \in Callers |->
        IF c # w /\ wr[c].pc = "saveTodayTotal" /\ s2.todayTotal # storage.todayTotal
        THEN [wr[c] EXCEPT !.seen = @ \cup {s2.todayTotal}]
        ELSE wr[c]]

InitStore ==
    /\ now = DAY_MS
    /\ ticks = 0
    /\ \E total \in 0..MaxTotal : storage = InitStorage(now, total)
    /\ wr = [c \in Callers |-> IdleCaller]
    /\ sh = [used |-> TRUE, firstDay |-> getCurrentDateString(now),
             base |-> storage.todayTotal, passed |-> {}, calls |-> 0,
             last |-> NoCall]
    /\ SyncUnused /\ TrackUnused /\ AggUnused /\ DiffUnused /\ SchedUnused

\* The clock advances by half a day: the second advance passes midnight.
StoreTick ==
    /\ ticks < MaxStoreTicks
    /\ now' = now + (DAY_MS \div 2)
    /\ ticks' = ticks + 1
    /\ UNCHANGED <<storage, syncVars, trackVars, storeVars, ag, lc, sc>>

\* saveTodayTotal(total), the call: checkDayChange(storage) runs now, the
\* comparison is the callback of the promise it returns.
SaveTodayTotalCall(w, total) ==
    /\ wr[w].pc = "idle"
    /\ sh.calls < MaxCalls
    /\ LET s2 == checkDayChange(storage, now)
       IN /\ storage' = s2
          /\ wr' = [Observe(w, s2) EXCEPT ![w] =
                      [pc |-> "saveTodayTotal", total |-> total,
                       stale |-> hasDayChanged(storage.todayDate, now),
                       zeroed |-> s2.todayTotal = 0
                                  /\ s2.todayDate = getCurrentDateString(now),
                       seen |-> {}]]
    /\ sh' = [sh EXCEPT !.calls = @ + 1, !.passed = @ \cup {total}]
    /\ UNCHANGED <<clockVars, syncVars, trackVars, ag, lc, sc>>

\* saveTodayTotal, the callback: read the stored total, write if greater.
SaveTodayTotalThen(w) ==
    /\ wr[w].pc = "saveTodayTotal"
    /\ LET s2 == saveTodayTotalThen(storage, wr[w].total, now)
       IN /\ storage' = s2
          /\ wr' = [Observe(w, s2) EXCEPT ![w] = IdleCaller]
          /\ sh' = [sh EXCEPT !.last =
                      [op |-> "saveTodayTotal", stale |-> wr[w].stale,
                       zeroed |-> wr[w].zeroed, total |-> wr[w].total,
                       cmp |-> storage.todayTotal, seen |-> wr[w].seen,
                       changed |-> s2 # storage]]
    /\ UNCHANGED <<clockVars, syncVars, trackVars, ag, lc, sc>>

\* getTodayTotal(): checkDayChange is started and not awaited, then the
\* total is read in the same segment.
GetTodayTotalCall(w) ==
    /\ wr[w].pc = "idle"
    /\ sh.calls < MaxCalls
    /\ LET s2 == checkDayChange(storage, now)
       IN /\ storage' = s2
          /\ wr' = Observe(w, s2)
          /\ sh' = [sh EXCEPT !.calls = @ + 1, !.last =
                      [op |-> "getTodayTotal",
                       stale |-> hasDayChanged(storage.todayDate, now),
                       zeroed |-> s2.todayTotal = 0
                                  /\ s2.todayDate = getCurrentDateString(now),
                       total |-> 0, cmp |-> s2.todayTotal, seen |-> {},
                       changed |-> s2 # storage]]
    /\ UNCHANGED <<clockVars, syncVars, trackVars, ag, lc, sc>>

SaveTodayTotalCalls == \E w \in Callers, total \in 0..MaxTotal : SaveTodayTotalCall(w, total)
SaveTodayTotalThens == \E w \in Callers : SaveTodayTotalThen(w)
GetTodayTotalCalls  == \E w \in Callers : GetTodayTotalCall(w)

NextStore ==
    \/ StoreTick
    \/ SaveTodayTotalCalls
    \/ SaveTodayTotalThens
    \/ GetTodayTotalCalls

SpecStore == InitStore /\ [][NextStore]_vars

OneDay == getCurrentDateString(now) = sh.firstDay
AllCallersIdle == \A c \in Callers : wr[c].pc = "idle"

\* C7: within one calendar day the stored today-total never decreases, a
\* saveTodayTotal(t) with t <= stored total changes nothing in the store,
\* and once every call has completed the stored total is the maximum of the
\* value stored before and all values passed.
C7_HighWaterMark ==
    /\ [][getCurrentDateString(now') = sh.firstDay
            => storage'.todayTotal >= storage.todayTotal]_vars
    /\ [](OneDay /\ sh.last.op = "saveTodayTotal" /\ sh.last.total <= sh.last.cmp
            => ~sh.last.changed)
    /\ [](OneDay /\ AllCallersIdle
            => storage.todayTotal = SetMax({sh.base} \cup sh.passed))

\* saveTodayTotal(2) has written, a later saveTodayTotal(1) found the larger
\* total and left it, and nothing is in flight.
C7_Witness ==
    /\ OneDay /\ AllCallersIdle
    /\ sh.passed = {1, 2}
    /\ sh.last.op = "saveTodayTotal" /\ sh.last.total = 1 /\ sh.last.cmp = 2
    /\ storage.todayTotal = 2

\* C8: a getTodayTotal() or saveTodayTotal(t) call that finds a stored date
\* marker different from the current date leaves the total 0 and the marker
\* today before anything is read: getTodayTotal() returns 0, and the total
\* saveTodayTotal(t) compares against is 0 or a total saved after that
\* reset, never the previous day's.
C8_DayRollover ==
    sh.last.stale =>
        /\ sh.last.zeroed
        /\ sh.last.op = "getTodayTotal" => sh.last.cmp = 0
        /\ sh.last.op = "saveTodayTotal" => sh.last.cmp \in ({0} \cup sh.last.seen)

\* A stale marker with a non-zero total of the previous day has been met by
\* a saveTodayTotal call whose comparison has run.
C8_Witness ==
    /\ sh.last.stale /\ sh.last.op = "saveTodayTotal"
    /\ sh.base > 0 /\ sh.last.total > 0 /\ sh.last.total < sh.base
    /\ sh.last.changed

-----------------------------------------------------------------------------
(* services/pulse.ts: the tracking context *)

Entities == {"a.ts", "b.ts"}

\* A Pulse as createPulse returns it (the fields that are constant in one
\* installation - type, project, branch, machine id - are left out).
Pulse(entity, state, time, additions, deletions, lines) ==
    [entity |-> entity, state |-> state, time |-> time,
     line_additions |-> additions, line_deletions |-> deletions, lines |-> lines]

\* context.pulses.reduce((sum, p) => sum + (p.line_additions || 0), 0)
RECURSIVE SumAdditions(_)
SumAdditions(pulses) ==
    IF pulses = <<>> THEN 0
    ELSE pulses[1].line_additions + SumAdditions(Tail(pulses))

RECURSIVE SumDeletions(_)
SumDeletions(pulses) ==
    IF pulses = <<>> THEN 0
    ELSE pulses[1].line_deletions + SumDeletions(Tail(pulses))

\* Mutant: the run is stamped with the latest pulse at both ends.
aggregatePulses_LatestOnly(context) ==
    IF Len(context.pulses) = 0 THEN context
    ELSE LET latestPulse == context.pulses[Len(context.pulses)]
             aggregatedPulse ==
                [entity |-> latestPulse.entity, state |-> latestPulse.state,
                 start_time |-> latestPulse.time, end_time |-> latestPulse.time,
                 line_additions |-> SumAdditions(context.pulses),
                 line_deletions |-> SumDeletions(context.pulses),
                 lines |-> latestPulse.lines]
         IN updateObject(context,
                [aggregatedPulses |->
                    appendToArray(context.aggregatedPulses, aggregatedPulse),
                 pulses |-> <<>>])

aggregatePulses(context) ==
    IF Len(context.pulses) = 0 THEN context
    ELSE LET latestPulse == context.pulses[Len(context.pulses)]
             firstPulse  == context.pulses[1]
             aggregatedPulse ==
                [entity |-> latestPulse.entity, state |-> latestPulse.state,
                 start_time |-> firstPulse.time, end_time |-> latestPulse.time,
                 line_additions |-> SumAdditions(context.pulses),
                 line_deletions |-> SumDeletions(context.pulses),
                 lines |-> latestPulse.lines]
         IN updateObject(context,
                [aggregatedPulses |->
                    appendToArray(context.aggregatedPulses, aggregatedPulse),
                 pulses |-> <<>>])

shouldAggregate(context) == context.lastAggregationTime # context.lastActivityTime

\* Mutant: a gap of exactly IDLE_THRESHOLD counts as idle.
withinIdleThreshold_Strict(timeSinceLastActivity) ==
    timeSinceLastActivity < IDLE_THRESHOLD

\* updateContext: const isActive = timeSinceLastActivity <= IDLE_THRESHOLD
withinIdleThreshold(timeSinceLastActivity) ==
    timeSinceLastActivity <= IDLE_THRESHOLD

\* Mutant: activeStartTime is re-armed by every fold within the threshold.
updateContext_Rearm(context, pulse, t) ==
    LET timeSinceLastActivity == calculateElapsedTime(context.lastActivityTime, t)
        isActive == withinIdleThreshold(timeSinceLastActivity)
        todayTotal == IF isActive THEN context.todayTotal + timeSinceLastActivity
                      ELSE context.todayTotal
        aggregateDue == t - context.lastAggregationTime >= AGGREGATION_INTERVAL
    IN updateObject(context,
          [pulses |-> appendToArray(context.pulses, pulse),
           todayTotal |-> todayTotal,
           lastActivityTime |-> t,
           isActive |-> isActive,
           activeStartTime |-> IF isActive THEN t ELSE 0,
           lastAggregationTime |->
              IF aggregateDue THEN t ELSE context.lastAggregationTime,
           lastPulse |-> pulse])

\* updateContext(context, pulse) with Date.now() = t.  lastFileContent (the
\* diff baseline) does not enter any field modelled here.
updateContext(context, pulse, t) ==
    LET timeSinceLastActivity == calculateElapsedTime(context.lastActivityTime, t)
        isActive == withinIdleThreshold(timeSinceLastActivity)
        todayTotal == IF isActive THEN context.todayTotal + timeSinceLastActivity
                      ELSE context.todayTotal
        aggregateDue == t - context.lastAggregationTime >= AGGREGATION_INTERVAL
    IN updateObject(context,
          [pulses |-> appendToArray(context.pulses, pulse),
           todayTotal |-> todayTotal,
           lastActivityTime |-> t,
           isActive |-> isActive,
           activeStartTime |->
              IF isActive
              THEN (IF context.isActive THEN context.activeStartTime ELSE t)
              ELSE 0,
           lastAggregationTime |->
              IF aggregateDue THEN t ELSE context.lastAggregationTime,
           lastPulse |-> pulse])

\* utils/functional.ts when(condition, fn)
whenShouldAggregate(context) ==
    IF shouldAggregate(context) THEN aggregatePulses(context) ELSE context

\* trackActivity: pipe(currentContext, ctx => updateContext(ctx, pulse),
\*                     when(shouldAggregate, aggregatePulses))
foldPulse(context, pulse, t) == whenShouldAggregate(updateContext(context, pulse, t))

\* The context createPulseService builds at time t over store s.
InitContext(s, t) ==
    [pulses |-> <<>>, aggregatedPulses |-> <<>>, todayTotal |-> s.todayTotal,
     lastActivityTime |-> t, lastAggregationTime |-> t, isActive |-> FALSE,
     activeStartTime |-> 0]

-----------------------------------------------------------------------------
(* SpecAgg: aggregatePulses applied to drawn pending runs                  *)

\* The pulses a pending run is drawn from.
SamplePulses ==
    {Pulse(e, st, t, a, d, 10 + a) :
        e \in Entities, st \in {"coding"}, t \in 1..3, a \in 0..1, d \in 0..1}

\* Pending runs: trackActivity appends pulses in the order of their
\* Date.now() stamps, so a run is ordered by time (PendingOrdered below
\* states this of the tracker).
OrderedByTime(pulses) ==
    \A i \in 1..(Len(pulses) - 1) : pulses[i].time <= pulses[i + 1].time

SampleRuns ==
    UNION {{run \in [1..n -> SamplePulses] : OrderedByTime(run)} : n \in 0..MaxRun}

InitAgg ==
    /\ now = DAY_MS
    /\ ticks = 0
    /\ storage = InitStorage(now, 0)
    /\ \E run \in SampleRuns : ctx = [NoContext EXCEPT !.pulses = run]
    /\ tr = [pc |-> "idle"]
    /\ th = [used |-> FALSE]
    /\ ag = [used |-> TRUE, done |-> FALSE, in |-> ctx]
    /\ SyncUnused /\ StoreUnused /\ DiffUnused /\ SchedUnused

ApplyAggregate ==
    /\ ag.used /\ ~ag.done
    /\ ctx' = aggregatePulses(ctx)
    /\ ag' = [ag EXCEPT !.done = TRUE]
    /\ UNCHANGED <<clockVars, storage, syncVars, tr, th, storeVars, lc, sc>>

NextAgg == ApplyAggregate

SpecAgg == InitAgg /\ [][NextAgg]_vars

RunTimes(pulses) == {pulses[i].time : i \in DOMAIN pulses}
SetMin(S) == CHOOSE x \in S : \A y \in S : x <= y

\* C10: aggregating a non-empty pending run appends one record with
\* start_time = the minimum and end_time = the maximum pulse time of the
\* run, line_additions / line_deletions = the sums over the run and the
\* descriptive fields of the latest pulse, and empties the pending list;
\* aggregating an empty pending list changes nothing.
C10_Aggregate ==
    ag.used /\ ag.done =>
        LET run == ag.in.pulses
        IN IF run = <<>> THEN ctx = ag.in
           ELSE LET a == ctx.aggregatedPulses[Len(ctx.aggregatedPulses)]
                    last == run[Len(run)]
                IN /\ ctx.pulses = <<>>
                   /\ Len(ctx.aggregatedPulses) = Len(ag.in.aggregatedPulses) + 1
                   /\ a.start_time = SetMin(RunTimes(run))
                   /\ a.end_time = SetMax(RunTimes(run))
                   /\ a.start_time <= a.end_time
                   /\ a.line_additions = SumAdditions(run)
                   /\ a.line_deletions = SumDeletions(run)
                   /\ a.entity = last.entity /\ a.state = last.state
                   /\ a.lines = last.lines
                   /\ [ctx EXCEPT !.pulses = run,
                                  !.aggregatedPulses = ag.in.aggregatedPulses] = ag.in

\* A run of two pulses at different times, different entities and with line
\* changes has been aggregated.
C10_Witness ==
    /\ ag.used /\ ag.done
    /\ Len(ag.in.pulses) = 2
    /\ ag.in.pulses[1].time < ag.in.pulses[2].time
    /\ ag.in.pulses[1].entity # ag.in.pulses[2].entity
    /\ ag.in.pulses[1].lines # ag.in.pulses[2].lines
    /\ SumAdditions(ag.in.pulses) = 1 /\ SumDeletions(ag.in.pulses) = 2
    /\ Len(ctx.aggregatedPulses) = 1

-----------------------------------------------------------------------------
(* SpecTrack: one extension instance, no other writer to the store         *)
(* pulse.ts createPulseService: trackActivity, the storage-check timer and *)
(* getTodayTotal, over the storage service                                 *)

\* The clock advances by the throttle period (less than the aggregation
\* interval), by the idle threshold, or by just more than the idle threshold.
TrackDeltas == {ACTIVITY_THRESHOLD, IDLE_THRESHOLD, IDLE_THRESHOLD + 1}

\* The instance is created shortly before midnight.
TrackStart == 2 * DAY_MS - 2 * ACTIVITY_THRESHOLD

InitTrack ==
    /\ now = TrackStart
    /\ ticks = 0
    /\ \E total \in {0, 1000} : storage = InitStorage(now, total)
    /\ ctx = InitContext(storage, now)
    /\ tr = [pc |-> "idle", lastCall |-> now, calls |-> 0, rejections |-> 0]
    /\ th = [used |-> TRUE, initTotal |-> ctx.todayTotal, stamps |-> <<now>>,
             firstDay |-> getCurrentDateString(now),
             day |-> getCurrentDateString(now), accrued |-> ctx.todayTotal]
    /\ SyncUnused /\ StoreUnused /\ AggUnused /\ DiffUnused /\ SchedUnused

TrackTick ==
    /\ ticks < MaxTrackTicks
    /\ \E d \in TrackDeltas : now' = now + d
    /\ ticks' = ticks + 1
    /\ UNCHANGED <<storage, syncVars, trackVars, storeVars, ag, lc, sc>>

\* extension.ts trackEditorActivity (throttle) -> trackActivity(editor,
\* state): createPulse reads the document and awaits getSystemInfo.
TrackActivityCall(entity, additions) ==
    /\ tr.pc = "idle"
    /\ tr.calls < MaxPulses
    /\ ~(now - tr.lastCall < ACTIVITY_THRESHOLD)
    /\ tr' = [pc |-> "createPulse", lastCall |-> now, calls |-> tr.calls + 1,
              pulse |-> Pulse(entity, "coding", 0, additions, 0, 10 + additions),
              before |-> ctx, rejections |-> tr.rejections]
    /\ UNCHANGED <<clockVars, storage, syncVars, ctx, th, storeVars, ag, lc, sc>>

TrackActivityNoEditor_Stamps ==
    /\ tr.pc = "idle"
    /\ tr.calls < MaxPulses
    /\ ~(now - tr.lastCall < ACTIVITY_THRESHOLD)
    /\ tr' = [pc |-> "returned", lastCall |-> now, calls |-> tr.calls + 1,
              rejections |-> tr.rejections]
    /\ ctx' = updateObject(ctx, [lastActivityTime |-> now])
    /\ UNCHANGED <<clockVars, storage, syncVars, th, storeVars, ag, lc, sc>>

\* trackEditorActivity (throttle) -> trackActivity(undefined, state):
\* handleActivity notes the time for the inactivity watchdog, and the call
\* returns Promise.resolve() before the try block.
TrackActivityNoEditor ==
    /\ tr.pc = "idle"
    /\ tr.calls < MaxPulses
    /\ ~(now - tr.lastCall < ACTIVITY_THRESHOLD)
    /\ tr' = [pc |-> "returned", lastCall |-> now, calls |-> tr.calls + 1,
              rejections |-> tr.rejections]
    /\ UNCHANGED <<clockVars, storage, syncVars, ctx, th, storeVars, ag, lc, sc>>

\* The promise of the call without an editor has resolved.
TrackReturned ==
    /\ tr.pc = "returned"
    /\ tr' = [tr EXCEPT !.pc = "idle"]
    /\ UNCHANGED <<clockVars, storage, syncVars, ctx, th, storeVars, ag, lc, sc>>

\* createPulse returns (time: Date.now()); the pulse is folded into the
\* context; savePulses([pulse]) is called, which runs checkDayChange.
TrackFold ==
    /\ tr.pc = "createPulse"
    /\ LET pulse == [tr.pulse EXCEPT !.time = now]
           c2 == foldPulse(ctx, pulse, now)
           day == getCurrentDateString(now)
           added == c2.todayTotal - ctx.todayTotal
       IN /\ ctx' = c2
          /\ tr' = [tr EXCEPT !.pc = "savePulses", !.pulse = pulse]
          /\ th' = [th EXCEPT !.stamps = Append(@, now), !.day = day,
                              !.accrued = IF day = th.day THEN @ + added ELSE added]
    /\ storage' = checkDayChange(storage, now)
    /\ UNCHANGED <<clockVars, syncVars, storeVars, ag, lc, sc>>

\* savePulses, the callback: append to the raw queue.
TrackSavePulsesThen ==
    /\ tr.pc = "savePulses"
    /\ storage' = savePulsesThen(storage, <<tr.pulse>>)
    /\ tr' = [tr EXCEPT !.pc = "afterSavePulses"]
    /\ UNCHANGED <<clockVars, syncVars, ctx, th, storeVars, ag, lc, sc>>

\* After await savePulses: saveAggregatedPulses(currentContext
\* .aggregatedPulses) if there are any, else saveTodayTotal(todayTotal);
\* either call runs checkDayChange.
TrackAfterSavePulses ==
    /\ tr.pc = "afterSavePulses"
    /\ storage' = checkDayChange(storage, now)
    /\ tr' = IF Len(ctx.aggregatedPulses) > 0
             THEN updateObject(tr, [pc |-> "saveAggregatedPulses",
                                    aggregated |-> ctx.aggregatedPulses])
             ELSE updateObject(tr, [pc |-> "saveTodayTotal",
                                    total |-> ctx.todayTotal])
    /\ UNCHANGED <<clockVars, syncVars, ctx, th, storeVars, ag, lc, sc>>

\* saveAggregatedPulses, the callback: append to the aggregated queue.
TrackSaveAggregatedThen ==
    /\ tr.pc = "saveAggregatedPulses"
    /\ storage' = saveAggregatedPulsesThen(storage, tr.aggregated)
    /\ tr' = [tr EXCEPT !.pc = "afterSaveAggregatedPulses"]
    /\ UNCHANGED <<clockVars, syncVars, ctx, th, storeVars, ag, lc, sc>>

\* After await saveAggregatedPulses: the in-memory aggregated list is
\* emptied and saveTodayTotal(currentContext.todayTotal) is called.
TrackAfterSaveAggregated ==
    /\ tr.pc = "afterSaveAggregatedPulses"
    /\ ctx' = updateObject(ctx, [aggregatedPulses |-> <<>>])
    /\ storage' = checkDayChange(storage, now)
    /\ tr' = updateObject(tr, [pc |-> "saveTodayTotal", total |-> ctx.todayTotal])
    /\ UNCHANGED <<clockVars, syncVars, th, storeVars, ag, lc, sc>>

\* saveTodayTotal, the callback: compare and write.
TrackSaveTodayTotalThen ==
    /\ tr.pc = "saveTodayTotal"
    /\ storage' = saveTodayTotalThen(storage, tr.total, now)
    /\ tr' = [tr EXCEPT !.pc = "afterSaveTodayTotal"]
    /\ UNCHANGED <<clockVars, syncVars, ctx, th, storeVars, ag, lc, sc>>

\* savePulses whose storage.update rejects: nothing is written; the catch
\* block logs the error and trackActivity returns Promise.reject(error).
TrackSavePulsesRejects ==
    /\ tr.pc = "savePulses"
    /\ tr.rejections < MaxRejections
    /\ tr' = [tr EXCEPT !.pc = "rejected", !.rejections = @ + 1]
    /\ UNCHANGED <<clockVars, storage, syncVars, ctx, th, storeVars, ag, lc, sc>>

\* saveAggregatedPulses whose storage.update rejects.
TrackSaveAggregatedRejects ==
    /\ tr.pc = "saveAggregatedPulses"
    /\ tr.rejections < MaxRejections
    /\ tr' = [tr EXCEPT !.pc = "rejected", !.rejections = @ + 1]
    /\ UNCHANGED <<clockVars, storage, syncVars, ctx, th, storeVars, ag, lc, sc>>

\* saveTodayTotal whose storage.update rejects.
TrackSaveTodayTotalRejects ==
    /\ tr.pc = "saveTodayTotal"
    /\ tr.rejections < MaxRejections
    /\ tr' = [tr EXCEPT !.pc = "rejected", !.rejections = @ + 1]
    /\ UNCHANGED <<clockVars, storage, syncVars, ctx, th, storeVars, ag, lc, sc>>

\* The caller's handler of the rejection has run.
TrackRejected ==
    /\ tr.pc = "rejected"
    /\ tr' = [pc |-> "idle", lastCall |-> tr.lastCall, calls |-> tr.calls,
              rejections |-> tr.rejections]
    /\ UNCHANGED <<clockVars, storage, syncVars, ctx, th, storeVars, ag, lc, sc>>

\* After await saveTodayTotal: trackActivity resolves.
TrackResolve ==
    /\ tr.pc = "afterSaveTodayTotal"
    /\ tr' = [pc |-> "idle", lastCall |-> tr.lastCall, calls |-> tr.calls,
              rejections |-> tr.rejections]
    /\ UNCHANGED <<clockVars, storage, syncVars, ctx, th, storeVars, ag, lc, sc>>

\* startStorageCheck, the interval callback: adopt a larger stored total.
StorageCheck ==
    /\ storage' = checkDayChange(storage, now)
    /\ LET storedTotal == storage'.todayTotal
       IN ctx' = IF storedTotal > ctx.todayTotal
                 THEN updateObject(ctx, [todayTotal |-> storedTotal])
                 ELSE ctx
    /\ UNCHANGED <<clockVars, syncVars, tr, th, storeVars, ag, lc, sc>>

\* The total getTodayTotal() formats, in milliseconds.
displayedTotal(context, t) ==
    LET timeSinceLastActivity == t - context.lastActivityTime
        isCurrentlyActive ==
            context.isActive /\ timeSinceLastActivity <= IDLE_THRESHOLD
    IN IF isCurrentlyActive
       THEN context.todayTotal + calculateElapsedTime(context.lastActivityTime, t)
       ELSE context.todayTotal

\* pulse service getTodayTotal(): adopt a larger stored total, then return
\* the total plus the time since the last activity while active.
GetTodayTotal ==
    /\ storage' = checkDayChange(storage, now)
    /\ LET storedTotal == storage'.todayTotal
       IN ctx' = IF storedTotal > ctx.todayTotal
                 THEN updateObject(ctx, [todayTotal |-> storedTotal])
                 ELSE ctx
    /\ UNCHANGED <<clockVars, syncVars, tr, th, storeVars, ag, lc, sc>>

\* The editor snapshots trackActivity is called with.
EditorStates == {<<"a.ts", 0>>, <<"b.ts", 1>>}

TrackActivityCalls == \E ed \in EditorStates : TrackActivityCall(ed[1], ed[2])

NextTrack ==
    \/ TrackTick
    \/ TrackActivityCalls
    \/ TrackActivityNoEditor
    \/ TrackReturned
    \/ TrackFold
    \/ TrackSavePulsesThen
    \/ TrackAfterSavePulses
    \/ TrackSaveAggregatedThen
    \/ TrackAfterSaveAggregated
    \/ TrackSaveTodayTotalThen
    \/ TrackResolve
    \/ StorageCheck
    \/ GetTodayTotal

SpecTrack == InitTrack /\ [][NextTrack]_vars

\* The same instance over a store whose updates may reject.
NextTrackFail ==
    \/ NextTrack
    \/ TrackSavePulsesRejects
    \/ TrackSaveAggregatedRejects
    \/ TrackSaveTodayTotalRejects
    \/ TrackRejected

SpecTrackFail == InitTrack /\ [][NextTrackFail]_vars

\* The pending raw pulses are in the order of their time stamps.
PendingOrdered == OrderedByTime(ctx.pulses)

\* Sum of the gaps between consecutive stamps that are within the idle
\* threshold; a longer gap contributes 0.
RECURSIVE SumActiveGaps(_)
SumActiveGaps(stamps) ==
    IF Len(stamps) < 2 THEN 0
    ELSE LET gap == stamps[2] - stamps[1]
         IN (IF gap <= 120000 THEN gap ELSE 0) + SumActiveGaps(Tail(stamps))

\* C6: with a single instance and no other writer, the in-memory todayTotal
\* after any sequence of folded pulses is its initial value plus the sum of
\* the gaps between consecutive activity timestamps (the successive values
\* of lastActivityTime, starting with the one set at construction) that are
\* <= IDLE_THRESHOLD; a longer gap contributes 0.
C6_IdleAccrual ==
    th.used => ctx.todayTotal = th.initTotal + SumActiveGaps(th.stamps)

\* Three pulses have been folded: one gap of exactly the idle threshold
\* (counted), one just above it (not counted) and a short one.
C6_Witness ==
    /\ th.used /\ Len(th.stamps) = 4
    /\ \E i \in 1..3 : th.stamps[i + 1] - th.stamps[i] = 120000
    /\ \E i \in 1..3 : th.stamps[i + 1] - th.stamps[i] = 120001
    /\ ctx.todayTotal > th.initTotal + 120000

\* C9: once a pulse has been folded on a later calendar day than the one the
\* instance started on, the in-memory today-total, and the stored one when
\* the trackActivity call has completed, hold only the time accrued by the
\* folds of that day.
C9_PerDayTotal ==
    (th.used /\ th.day # th.firstDay /\ getCurrentDateString(now) = th.day) =>
        /\ ctx.todayTotal = th.accrued
        /\ tr.pc = "idle" => storage.todayTotal = th.accrued

-----------------------------------------------------------------------------
(* services/sync.ts: syncToBackend and performSync (lines 416-561)         *)

\* The comparator syncToBackend hands to Array.prototype.sort.
compareItems(a, b) ==
    IF "time" \in DOMAIN a /\ "time" \in DOMAIN b THEN a.time - b.time
    ELSE IF "start_time" \in DOMAIN a /\ "start_time" \in DOMAIN b
         THEN a.start_time - b.start_time
         ELSE 0

\* Array.prototype.sort as the extension host's engine runs it on an array
\* shorter than its minimum merge run: the leading run is found (and
\* reversed if strictly descending), the other elements are placed by
\* binary insertion.  Indices are 1-based here.
RECURSIVE RunLength(_, _, _)
RunLength(a, idx, descending) ==
    IF idx > Len(a) THEN Len(a)
    ELSE LET order == compareItems(a[idx], a[idx - 1])
         IN IF (descending /\ order >= 0) \/ (~descending /\ order < 0)
            THEN idx - 1
            ELSE RunLength(a, idx + 1, descending)

Reverse(a) == [i \in 1..Len(a) |-> a[Len(a) + 1 - i]]

RECURSIVE InsertionPoint(_, _, _, _)
InsertionPoint(a, pivot, left, right) ==
    IF left < right
    THEN LET mid == left + ((right - left) \div 2)
         IN IF compareItems(pivot, a[mid + 1]) < 0
            THEN InsertionPoint(a, pivot, left, mid)
            ELSE InsertionPoint(a, pivot, mid + 1, right)
    ELSE left

RECURSIVE BinaryInsertionSort(_, _)
BinaryInsertionSort(a, start) ==
    IF start > Len(a) THEN a
    ELSE LET pivot == a[start]
             left == InsertionPoint(a, pivot, 0, start - 1)
             placed == SubSeq(a, 1, left) \o <<pivot>> \o SubSeq(a, left + 1, start - 1)
                       \o SubSeq(a, start + 1, Len(a))
         IN BinaryInsertionSort(placed, start + 1)

sortItems(a) ==
    IF Len(a) < 2 THEN a
    ELSE LET descending == compareItems(a[2], a[1]) < 0
             run == RunLength(a, 3, descending)
             made == IF descending
                     THEN Reverse(SubSeq(a, 1, run)) \o SubSeq(a, run + 1, Len(a))
                     ELSE a
         IN BinaryInsertionSort(made, run + 1)

\* syncToBackend: const allItems = [...pulses, ...aggregatedPulses].sort(...)
allItemsOf(pulses, aggregatedPulses) == sortItems(pulses \o aggregatedPulses)

\* The batch that starts at offset i: allItems.slice(i, i + MAX_BATCH_SIZE)
batchAt(allItems, i) ==
    SubSeq(allItems, i + 1, IF i + MAX_BATCH_SIZE < Len(allItems)
                            THEN i + MAX_BATCH_SIZE ELSE Len(allItems))

\* Math.floor(i / MAX_BATCH_SIZE) + 1
batchIndex(i) == (i \div MAX_BATCH_SIZE) + 1

\* The value of an absent optional field.
Undefined == "undefined"

\* String(new Error(result.errorDetails || 'Sync failed without specific error'))
errorString(errorDetails) ==
    "Error: " \o (IF errorDetails = "" \/ errorDetails = Undefined
                  THEN "Sync failed without specific error"
                  ELSE errorDetails)

\* Mutant: the guard is missing, every request starts a sync.
alreadySyncing_NoGuard == FALSE

\* performSync: if (isSyncing) return Promise.resolve()
alreadySyncing == isSyncing

\* Mutant: the retry test admits one retry more.
mayRetry_OneMore(retryCount) == retryCount <= MAX_RETRY_ATTEMPTS

\* attemptSync, catch: if (retryCount < CONFIG.SYNC.MAX_RETRY_ATTEMPTS)
mayRetry(retryCount) == retryCount < MAX_RETRY_ATTEMPTS

\* Math.pow(2, retryCount) * CONFIG.SYNC.INITIAL_BACKOFF
backoffTime(retryCount) == (2 ^ retryCount) * INITIAL_BACKOFF

\* Mutant: the synced items are cleared whatever the result.
afterAttempt_AlwaysClear(s, success, pendingPulses, aggregatedPulses) ==
    clearSyncedAggregatedPulses(clearSyncedPulses(s, pendingPulses), aggregatedPulses)

\* attemptSync, then: on result.success both clear operations are started
\* (Promise.all); otherwise nothing is written and the error is thrown.
afterAttempt(s, success, pendingPulses, aggregatedPulses) ==
    IF success
    THEN clearSyncedAggregatedPulses(clearSyncedPulses(s, pendingPulses),
                                     aggregatedPulses)
    ELSE s

successStatus_CountReset(s, t) ==
    [lastSyncTime |-> t, nextSyncTime |-> t + SYNC_INTERVAL, syncCount |-> 1,
     isOnline |-> TRUE, apiStatus |-> "ok", pendingPulses |-> 0,
     lastError |-> Undefined]

\* The status written after a successful sync.
successStatus(s, t) ==
    [lastSyncTime |-> t, nextSyncTime |-> t + SYNC_INTERVAL,
     syncCount |-> getSyncStatus(s, t).syncCount + 1,
     isOnline |-> TRUE, apiStatus |-> "ok", pendingPulses |-> 0,
     lastError |-> Undefined]

\* Mutant: only the raw pulses are counted as pending.
failureStatus_RawOnly(s, t, pendingPulses, aggregatedPulses, error) ==
    [isOnline |-> FALSE, apiStatus |-> "error",
     lastSyncTime |-> IF getSyncStatus(s, t).lastSyncTime > 0
                      THEN getSyncStatus(s, t).lastSyncTime ELSE t,
     nextSyncTime |-> t + SYNC_INTERVAL,
     pendingPulses |-> Len(pendingPulses),
     lastError |-> error]

\* The status written when all retry attempts have failed.
failureStatus(s, t, pendingPulses, aggregatedPulses, error) ==
    [isOnline |-> FALSE, apiStatus |-> "error",
     lastSyncTime |-> IF getSyncStatus(s, t).lastSyncTime > 0
                      THEN getSyncStatus(s, t).lastSyncTime ELSE t,
     nextSyncTime |-> t + SYNC_INTERVAL,
     pendingPulses |-> Len(pendingPulses) + Len(aggregatedPulses),
     lastError |-> error]

noApiKeyStatus_Online(t, pendingPulses, aggregatedPulses) ==
    [isOnline |-> TRUE, apiStatus |-> "ok", lastSyncTime |-> t,
     nextSyncTime |-> t + SYNC_INTERVAL, pendingPulses |-> 0,
     lastError |-> "No valid API key found"]

\* The status written when performSync finds no valid API key.
noApiKeyStatus(t, pendingPulses, aggregatedPulses) ==
    [isOnline |-> FALSE, apiStatus |-> "error", lastSyncTime |-> t,
     nextSyncTime |-> t + SYNC_INTERVAL,
     pendingPulses |-> Len(pendingPulses) + Len(aggregatedPulses),
     lastError |-> "No valid API key found"]

-----------------------------------------------------------------------------
(* SpecSync: one process running performSync against the shared store,    *)
(* while trackers (of this window or of another one) append to the queues  *)

Runs == 1..MaxRuns

\* A sync between the moment it sets isSyncing and its finally handler.
InFlightPcs ==
    {"saveTodayTotal", "getApiKey", "syncToBackend", "syncBatch",
     "attemptSucceeded", "attemptFailed", "cleared", "backoff", "finally"}

\* A sync that has read the queues and has not ended.
AfterReadPcs == InFlightPcs \ {"saveTodayTotal"}

InFlight(r) == runs[r].pc \in InFlightPcs

\* What is left of a sync after its promise settled: the locals are gone.
Ended(run, pc, outcome) ==
    [pc |-> pc, busy |-> run.busy, total |-> 0,
     pendingPulses |-> <<>>, aggregatedPulses |-> <<>>,
     lateRaw |-> <<>>, lateAggregated |-> <<>>,
     retryCount |-> 0, retryAt |-> 0, allItems |-> <<>>, i |-> 0,
     attempts |-> run.attempts, sends |-> run.sends, failedBatch |-> 0,
     errorDetails |-> Undefined, outcome |-> outcome, acks |-> <<>>]

NewRun ==
    [pc |-> "new", busy |-> FALSE, total |-> 0,
     pendingPulses |-> <<>>, aggregatedPulses |-> <<>>,
     lateRaw |-> <<>>, lateAggregated |-> <<>>,
     retryCount |-> 0, retryAt |-> 0, allItems |-> <<>>, i |-> 0,
     attempts |-> 0, sends |-> 0, failedBatch |-> 0,
     errorDetails |-> Undefined, outcome |-> "none", acks |-> <<>>]

\* Error details a failed batch reports: an HTTP status line, or the empty
\* message of a {success: false} response.
ErrorDetails == {"Status: 500", ""}

InitSync ==
    /\ now = DAY_MS
    /\ ticks = 0
    /\ storage = InitStorage(now, 0)
    /\ apiKey \in BOOLEAN
    /\ isSyncing = FALSE
    /\ runs = [r \in Runs |-> NewRun]
    /\ appends = 0
    /\ TrackUnused /\ StoreUnused /\ AggUnused /\ DiffUnused /\ SchedUnused

SyncTick ==
    /\ ticks < MaxSyncTicks
    /\ now' = now + INITIAL_BACKOFF
    /\ ticks' = ticks + 1
    /\ UNCHANGED <<storage, syncVars, trackVars, storeVars, ag, lc, sc>>

\* The user stores or removes the API key.
ApiKeyChange ==
    /\ apiKey' = ~apiKey
    /\ UNCHANGED <<clockVars, storage, isSyncing, runs, appends, trackVars, storeVars, ag, lc, sc>>

NoteLate(raw, aggregated) ==
    [r \in Runs |->
        IF runs[r].pc \in AfterReadPcs
        THEN [runs[r] EXCEPT !.lateRaw = @ \o raw, !.lateAggregated = @ \o aggregated]
        ELSE runs[r]]

\* A tracker persists a raw pulse stamped with the current time:
\* savePulses([pulse]).  The sync engine reads only the time of an item, so
\* one entity stands for all.
AppendPulse ==
    /\ appends < MaxQueue
    /\ appends' = appends + 1
    /\ LET pulse == Pulse("a.ts", "coding", now, 0, 0, 10)
       IN /\ storage' = savePulsesThen(checkDayChange(storage, now), <<pulse>>)
          /\ runs' = NoteLate(<<pulse>>, <<>>)
    /\ UNCHANGED <<clockVars, apiKey, isSyncing, trackVars, storeVars, ag, lc, sc>>

\* A tracker persists the aggregated record of a run that ends now:
\* saveAggregatedPulses([record]).
AppendAggregated ==
    /\ appends < MaxQueue
    /\ appends' = appends + 1
    /\ LET record == aggregatePulses(
                        [NoContext EXCEPT !.pulses =
                            <<Pulse("a.ts", "coding", now, 0, 0, 10)>>]
                     ).aggregatedPulses[1]
       IN /\ storage' = saveAggregatedPulsesThen(checkDayChange(storage, now), <<record>>)
          /\ runs' = NoteLate(<<>>, <<record>>)
    /\ UNCHANGED <<clockVars, apiKey, isSyncing, trackVars, storeVars, ag, lc, sc>>

\* performSync(): dropped when a sync is in flight; else the flag is set and
\* saveTodayTotal(getTodayTotal()) is called (both run checkDayChange).
performSync(r) ==
    /\ runs[r].pc = "new"
    /\ \A q \in Runs : q < r => runs[q].pc # "new"
    /\ IF alreadySyncing
       THEN /\ runs' = [runs EXCEPT ![r].pc = "skipped",
                                    ![r].busy = \E q \in Runs : InFlight(q)]
            /\ UNCHANGED <<storage, isSyncing>>
       ELSE /\ isSyncing' = TRUE
            /\ storage' = checkDayChange(storage, now)
            /\ runs' = [runs EXCEPT ![r].pc = "saveTodayTotal",
                                    ![r].busy = \E q \in Runs : InFlight(q),
                                    ![r].total = storage'.todayTotal]
    /\ UNCHANGED <<clockVars, apiKey, appends, trackVars, storeVars, ag, lc>>

\* syncPulses(): performSync, called by the manual trigger.
PerformSync(r) == performSync(r) /\ UNCHANGED sc

\* saveTodayTotal's callback, then performSync's: read both queues; with
\* nothing pending the flag is released and the sync resolves.
SyncReadQueues(r) ==
    /\ runs[r].pc = "saveTodayTotal"
    /\ storage' = saveTodayTotalThen(storage, runs[r].total, now)
    /\ LET pendingPulses == storage'.pendingPulses
           aggregatedPulses == storage'.aggregatedPulses
       IN IF Len(pendingPulses) = 0 /\ Len(aggregatedPulses) = 0
          THEN /\ isSyncing' = FALSE
               /\ runs' = [runs EXCEPT ![r] = Ended(@, "resolved", "empty")]
          ELSE /\ runs' = [runs EXCEPT ![r].pc = "getApiKey",
                                       ![r].pendingPulses = pendingPulses,
                                       ![r].aggregatedPulses = aggregatedPulses]
               /\ UNCHANGED isSyncing
    /\ UNCHANGED <<clockVars, apiKey, appends, trackVars, storeVars, ag, lc, sc>>

\* performSync after getApiKey: without a key the flag is released and the
\* error status is written; with one, attemptSync(0) calls syncToBackend.
SyncGotApiKey(r) ==
    /\ runs[r].pc = "getApiKey"
    /\ IF ~apiKey
       THEN /\ isSyncing' = FALSE
            /\ storage' = updateSyncStatus(storage,
                            noApiKeyStatus(now, runs[r].pendingPulses,
                                           runs[r].aggregatedPulses), now)
            /\ runs' = [runs EXCEPT ![r] = Ended(@, "resolved", "noApiKey")]
       ELSE /\ runs' = [runs EXCEPT ![r].pc = "syncToBackend",
                                    ![r].retryCount = 0, ![r].attempts = @ + 1]
            /\ UNCHANGED <<storage, isSyncing>>
    /\ UNCHANGED <<clockVars, apiKey, appends, trackVars, storeVars, ag, lc, sc>>

\* syncToBackend after its own getApiKey: without a key the attempt fails;
\* with one, the items are merged and sorted and the first batch is sent.
SyncToBackendStart(r) ==
    /\ runs[r].pc = "syncToBackend"
    /\ IF ~apiKey
       THEN runs' = [runs EXCEPT ![r].pc = "attemptFailed", ![r].failedBatch = 0,
                                 ![r].errorDetails = "No valid API key found"]
       ELSE LET allItems == allItemsOf(runs[r].pendingPulses,
                                       runs[r].aggregatedPulses)
            IN runs' = [runs EXCEPT ![r].pc = "syncBatch", ![r].i = 0,
                                    ![r].allItems = allItems,
                                    ![r].sends = @ + 1,
                                    ![r].acks = IF @ = <<>>
                                                THEN [k \in DOMAIN allItems |-> 0]
                                                ELSE @]
    /\ UNCHANGED <<clockVars, storage, apiKey, isSyncing, appends, trackVars, storeVars, ag, lc, sc>>

\* Mutant: a batch takes one item more, which the next batch takes again.
inBatch_OneMore(k, i) == i < k /\ k <= i + MAX_BATCH_SIZE + 1

\* Item k of allItems (1-based) is in allItems.slice(i, i + MAX_BATCH_SIZE).
inBatch(k, i) == i < k /\ k <= i + MAX_BATCH_SIZE

\* The acknowledgements of a run so far, per item of allItems (observer
\* only), after the batch at offset i was acknowledged.
acknowledged(acks, i) ==
    [k \in DOMAIN acks |-> IF inBatch(k, i) THEN acks[k] + 1 ELSE acks[k]]

\* syncBatch returns {success: true}: the loop sends the next batch, or
\* syncToBackend returns success after the last one.
BatchSucceeds(r) ==
    /\ runs[r].pc = "syncBatch"
    /\ LET i2 == runs[r].i + MAX_BATCH_SIZE
           acks == acknowledged(runs[r].acks, runs[r].i)
       IN IF i2 < Len(runs[r].allItems)
          THEN runs' = [runs EXCEPT ![r].i = i2, ![r].sends = @ + 1,
                                    ![r].acks = acks]
          ELSE runs' = [runs EXCEPT ![r].pc = "attemptSucceeded",
                                    ![r].acks = acks]
    /\ UNCHANGED <<clockVars, storage, apiKey, isSyncing, appends, trackVars, storeVars, ag, lc, sc>>

BatchFails_Continue(r, errorDetails) ==
    /\ runs[r].pc = "syncBatch"
    /\ runs' = [runs EXCEPT ![r].i = @ + MAX_BATCH_SIZE, ![r].sends = @ + 1,
                            ![r].failedBatch = batchIndex(runs[r].i),
                            ![r].errorDetails = errorDetails]
    /\ UNCHANGED <<clockVars, storage, apiKey, isSyncing, appends, trackVars, storeVars, ag, lc, sc>>

\* syncBatch returns {success: false, errorDetails} (non-2xx, success:false,
\* timeout or exception): the loop breaks.
BatchFails(r, errorDetails) ==
    /\ runs[r].pc = "syncBatch"
    /\ runs' = [runs EXCEPT ![r].pc = "attemptFailed",
                            ![r].failedBatch = batchIndex(runs[r].i),
                            ![r].errorDetails = errorDetails]
    /\ UNCHANGED <<clockVars, storage, apiKey, isSyncing, appends, trackVars, storeVars, ag, lc, sc>>

\* attemptSync, then (success): clear what was read from both queues.
SyncClear(r) ==
    /\ runs[r].pc = "attemptSucceeded"
    /\ storage' = afterAttempt(storage, TRUE, runs[r].pendingPulses,
                               runs[r].aggregatedPulses)
    /\ runs' = [runs EXCEPT ![r].pc = "cleared"]
    /\ UNCHANGED <<clockVars, apiKey, isSyncing, appends, trackVars, storeVars, ag, lc, sc>>

\* After both clears: the success status is written.
SyncRecordSuccess(r) ==
    /\ runs[r].pc = "cleared"
    /\ storage' = updateSyncStatus(storage, successStatus(storage, now), now)
    /\ runs' = [runs EXCEPT ![r].pc = "finally", ![r].outcome = "ok"]
    /\ UNCHANGED <<clockVars, apiKey, isSyncing, appends, trackVars, storeVars, ag, lc, sc>>

\* attemptSync, then (failure) and catch: the error is thrown; it is retried
\* after the backoff, or rethrown to performSync's catch, which writes the
\* failure status.
SyncAttemptFailed(r) ==
    /\ runs[r].pc = "attemptFailed"
    /\ LET s1 == afterAttempt(storage, FALSE, runs[r].pendingPulses,
                              runs[r].aggregatedPulses)
           error == errorString(runs[r].errorDetails)
       IN IF mayRetry(runs[r].retryCount)
          THEN /\ storage' = s1
               /\ runs' = [runs EXCEPT ![r].pc = "backoff",
                             ![r].retryAt = now + backoffTime(runs[r].retryCount)]
          ELSE /\ storage' = updateSyncStatus(s1,
                                failureStatus(s1, now, runs[r].pendingPulses,
                                              runs[r].aggregatedPulses, error), now)
               /\ runs' = [runs EXCEPT ![r].pc = "finally", ![r].outcome = "failed"]
    /\ UNCHANGED <<clockVars, apiKey, isSyncing, appends, trackVars, storeVars, ag, lc, sc>>

\* The backoff timer fires: attemptSync(retryCount + 1) calls syncToBackend.
BackoffExpires(r) ==
    /\ runs[r].pc = "backoff"
    /\ now >= runs[r].retryAt
    /\ runs' = [runs EXCEPT ![r].pc = "syncToBackend", ![r].retryCount = @ + 1,
                            ![r].attempts = @ + 1, ![r].retryAt = 0,
                            ![r].allItems = <<>>, ![r].i = 0,
                            ![r].failedBatch = 0, ![r].errorDetails = Undefined]
    /\ UNCHANGED <<clockVars, storage, apiKey, isSyncing, appends, trackVars, storeVars, ag, lc, sc>>

settle_Swallow(outcome) == "resolved"

\* How the promise of performSync settles: the handler that records the
\* failed status throws the error again, and the outer catch rethrows it.
settle(outcome) == IF outcome = "failed" THEN "rejected" ELSE "resolved"

\* finally: the flag is released; the promise resolves, or rejects with the
\* error of the last attempt.
SyncFinally(r) ==
    /\ runs[r].pc = "finally"
    /\ isSyncing' = FALSE
    /\ runs' = [runs EXCEPT ![r] = Ended(@, settle(@.outcome), @.outcome)]
    /\ UNCHANGED <<clockVars, storage, apiKey, appends, trackVars, storeVars, ag, lc, sc>>

PerformSyncs       == \E r \in Runs : PerformSync(r)
SyncReadQueuess    == \E r \in Runs : SyncReadQueues(r)
SyncGotApiKeys     == \E r \in Runs : SyncGotApiKey(r)
SyncToBackendStarts == \E r \in Runs : SyncToBackendStart(r)
BatchSucceedss     == \E r \in Runs : BatchSucceeds(r)
BatchFailss        == \E r \in Runs, d \in ErrorDetails : BatchFails(r, d)
SyncClears         == \E r \in Runs : SyncClear(r)
SyncRecordSuccesss == \E r \in Runs : SyncRecordSuccess(r)
SyncAttemptFaileds == \E r \in Runs : SyncAttemptFailed(r)
BackoffExpiress    == \E r \in Runs : BackoffExpires(r)
SyncFinallys       == \E r \in Runs : SyncFinally(r)

NextSync ==
    \/ SyncTick
    \/ ApiKeyChange
    \/ AppendPulse
    \/ AppendAggregated
    \/ PerformSyncs
    \/ SyncReadQueuess
    \/ SyncGotApiKeys
    \/ SyncToBackendStarts
    \/ BatchSucceedss
    \/ BatchFailss
    \/ SyncClears
    \/ SyncRecordSuccesss
    \/ SyncAttemptFaileds
    \/ BackoffExpiress
    \/ SyncFinallys

SpecSync == InitSync /\ [][NextSync]_vars

-----------------------------------------------------------------------------
(* Properties of SpecSync                                                  *)

Queued == Range(storage.pendingPulses) \cup Range(storage.aggregatedPulses)

FailedRun(r) == runs[r].pc = "finally" /\ runs[r].outcome = "failed"

C2_ExactClear ==
    \A r \in Runs :
        runs[r].pc = "cleared" =>
            /\ storage.pendingPulses = runs[r].lateRaw
            /\ storage.aggregatedPulses = runs[r].lateAggregated

\* C3 as stated: after batch k of an attempt failed, the items of batches
\* 1..k-1 are no longer queued and the items of batch k and later are.
C3_AckedBatchesCleared ==
    \A r \in Runs :
        (runs[r].pc = "backoff" \/ FailedRun(r)) /\ runs[r].failedBatch >= 1 =>
            \A idx \in DOMAIN runs[r].allItems :
                (runs[r].allItems[idx] \in Queued)
                    = (idx > (runs[r].failedBatch - 1) * MAX_BATCH_SIZE)

\* C3 amended: while the batches of an attempt are being sent, after one of
\* them failed and while the retry is awaited, nothing has been cleared: both
\* queues hold every item the sync read (those of the acknowledged batches
\* included) followed by the items appended since.
C3_NothingClearedOnFailure ==
    \A r \in Runs :
        runs[r].pc \in {"syncToBackend", "syncBatch", "attemptFailed", "backoff"} =>
            /\ storage.pendingPulses = runs[r].pendingPulses \o runs[r].lateRaw
            /\ storage.aggregatedPulses =
                   runs[r].aggregatedPulses \o runs[r].lateAggregated
            /\ \A idx \in DOMAIN runs[r].allItems : runs[r].allItems[idx] \in Queued

\* The second batch of an attempt failed (the first was acknowledged) and
\* the sync waits for its retry.
C3_Witness ==
    \E r \in Runs :
        /\ runs[r].pc = "backoff"
        /\ runs[r].failedBatch = 2
        /\ Len(runs[r].allItems) > MAX_BATCH_SIZE

\* C4: when the last attempt of a sync has failed, the stored status is
\* offline / error, counts the items read at the start of the sync, carries
\* the failure detail of the last attempt as its lastError, and both queues
\* hold what the sync read followed by what was appended meanwhile.
C4_RetryExhaustion ==
    \A r \in Runs :
        FailedRun(r) =>
            /\ storage.syncStatus # NoStatus
            /\ storage.syncStatus.isOnline = FALSE
            /\ storage.syncStatus.apiStatus = "error"
            /\ storage.syncStatus.pendingPulses =
                   Len(runs[r].pendingPulses) + Len(runs[r].aggregatedPulses)
            /\ storage.syncStatus.lastError \in
                   {"Error: Status: 500", "Error: No valid API key found",
                    "Error: Sync failed without specific error"}
            /\ (runs[r].errorDetails = "Status: 500"
                    => storage.syncStatus.lastError = "Error: Status: 500")
            /\ (runs[r].errorDetails = ""
                    => storage.syncStatus.lastError
                           = "Error: Sync failed without specific error")
            /\ storage.pendingPulses = runs[r].pendingPulses \o runs[r].lateRaw
            /\ storage.aggregatedPulses =
                   runs[r].aggregatedPulses \o runs[r].lateAggregated

\* A sync that read an aggregated item has failed for good, with an HTTP
\* error, and a raw pulse was appended while it ran.
C4_Witness ==
    \E r \in Runs :
        /\ FailedRun(r)
        /\ runs[r].aggregatedPulses # <<>>
        /\ runs[r].lateRaw # <<>>
        /\ runs[r].errorDetails = "Status: 500"

\* C5 as stated: a sync makes at most MAX_RETRY_ATTEMPTS attempts.
C5_AtMostMaxAttempts ==
    \A r \in Runs : runs[r].attempts <= MAX_RETRY_ATTEMPTS

\* C5 amended: a sync makes at most MAX_RETRY_ATTEMPTS + 1 attempts (the
\* first one and MAX_RETRY_ATTEMPTS retries); it waits for a retry only when
\* fewer than MAX_RETRY_ATTEMPTS retries were made, and when it gives up it
\* has made exactly MAX_RETRY_ATTEMPTS + 1 attempts and the failed status is
\* stored.
C5_BoundedRetry ==
    \A r \in Runs :
        /\ runs[r].attempts <= MAX_RETRY_ATTEMPTS + 1
        /\ runs[r].pc = "backoff" => runs[r].retryCount < MAX_RETRY_ATTEMPTS
        /\ InFlight(r) /\ runs[r].attempts > 0 =>
               runs[r].attempts = runs[r].retryCount + 1
        /\ FailedRun(r) \/ runs[r].pc = "rejected" =>
               runs[r].attempts = MAX_RETRY_ATTEMPTS + 1
        /\ FailedRun(r) =>
               /\ storage.syncStatus # NoStatus
               /\ storage.syncStatus.apiStatus = "error"

\* A sync gave up after the retry, and was rejected.
C5_Witness ==
    \E r \in Runs :
        /\ runs[r].pc = "rejected"
        /\ runs[r].attempts = MAX_RETRY_ATTEMPTS + 1
        /\ runs[r].sends >= 2

-----------------------------------------------------------------------------
(* Properties of SpecTrack: the aggregation trigger                        *)

\* The step in which trackActivity folds the pulse createPulse returned.
FoldStep == tr.pc = "createPulse" /\ tr'.pc = "savePulses"

\* Time since the aggregation checkpoint, as updateContext computes it.
sinceCheckpoint == now - ctx.lastAggregationTime

\* The fold has moved the pending pulses into one more aggregated record.
Aggregated == Len(ctx'.aggregatedPulses) = Len(ctx.aggregatedPulses) + 1

\* C11: a fold aggregates the pending pulses only if at least
\* AGGREGATION_INTERVAL has passed since the aggregation checkpoint; a fold
\* less than AGGREGATION_INTERVAL after the checkpoint does not aggregate.
C11_AggregationTrigger ==
    [][FoldStep /\ Aggregated => sinceCheckpoint >= AGGREGATION_INTERVAL]_vars

\* C12: whenever a pulse is folded at least AGGREGATION_INTERVAL after the
\* aggregation checkpoint, the pending list is folded into one aggregated
\* record and is empty afterwards.
C12_BoundedBuffer ==
    [][FoldStep /\ sinceCheckpoint >= AGGREGATION_INTERVAL
          => Aggregated /\ ctx'.pulses = <<>>]_vars

-----------------------------------------------------------------------------
(* pulse.ts getPulseSummary                                                *)

\* 'time' in p ? p.time : p.start_time
identity(p) == IF "time" \in DOMAIN p THEN p.time ELSE p.start_time

\* startOfDay.setHours(0, 0, 0, 0): the midnight that starts the day of t.
startOfDay(t) == (t \div DAY_MS) * DAY_MS

\* Mutant: the stored items are added without the filter.
notAlreadyListed_Always(time, existingPulseTimes) == TRUE

\* !existingPulseTimes.has(p.time) / !existingPulseTimes.has(p.start_time)
notAlreadyListed(time, existingPulseTimes) == time \notin existingPulseTimes

\* getPulseSummary() called at time t on context and store s.
getPulseSummary(context, s, t) ==
    LET allPulses == context.aggregatedPulses \o context.pulses
        existingPulseTimes == {identity(allPulses[i]) : i \in DOMAIN allPulses}
        uniqueStoredPulses ==
            SelectSeq(s.pendingPulses,
                      LAMBDA p : notAlreadyListed(p.time, existingPulseTimes))
        uniqueStoredAggregatedPulses ==
            SelectSeq(s.aggregatedPulses,
                      LAMBDA p : notAlreadyListed(p.start_time, existingPulseTimes))
    IN [data  |-> allPulses \o uniqueStoredPulses \o uniqueStoredAggregatedPulses,
        start |-> startOfDay(t),
        end   |-> t]

\* What getPulseSummary() would return now.
summaryNow == getPulseSummary(ctx, storage, now)

InMemoryTimes ==
    {identity(p) : p \in Range(ctx.aggregatedPulses) \cup Range(ctx.pulses)}

DurableTimes ==
    {identity(p) : p \in Range(storage.pendingPulses) \cup Range(storage.aggregatedPulses)}

\* The items in memory, in the order getPulseSummary lists them.
inMemory == ctx.aggregatedPulses \o ctx.pulses

Distinct(items) == \A i, j \in DOMAIN items : i # j => items[i] # items[j]

C14_SummaryWindow ==
    th.used =>
        \A i \in DOMAIN summaryNow.data :
            /\ summaryNow.start <= identity(summaryNow.data[i])
            /\ identity(summaryNow.data[i]) <= summaryNow.end

-----------------------------------------------------------------------------
(* pulse.ts calculateLineChanges                                           *)
(* A content string is the sequence of its characters; "\n" is the line    *)
(* break.                                                                  *)

Chars == {"a", "b", "\n"}

Contents == UNION {[1..n -> Chars] : n \in 0..MaxLen}

\* content.split('\n'): the lines of a content, each a sequence of
\* characters; the empty content has one empty line.
RECURSIVE split(_)
split(content) ==
    IF content = <<>> THEN << <<>> >>
    ELSE LET rest == split(Tail(content))
         IN IF Head(content) = "\n"
            THEN << <<>> >> \o rest
            ELSE << <<Head(content)>> \o rest[1] >> \o Tail(rest)

\* The number of lines of the first list that the second does not contain:
\* for (const line of lines) if (!otherSet.has(line)) count++
countMissing(lines, otherLines) ==
    Cardinality({i \in DOMAIN lines : lines[i] \notin Range(otherLines)})

\* Mutant: the counts are returned as computed, without the {1, 1} marker.
changeMarker_None(additions, deletions) ==
    [additions |-> additions, deletions |-> deletions]

\* if (additions === deletions && additions > 0) return {1, 1}
changeMarker(additions, deletions) ==
    IF additions = deletions /\ additions > 0
    THEN [additions |-> 1, deletions |-> 1]
    ELSE [additions |-> additions, deletions |-> deletions]

calculateLineChanges(oldContent, newContent) ==
    IF oldContent = <<>> \/ oldContent = newContent
    THEN [additions |-> 0, deletions |-> 0]
    ELSE LET oldLines == split(oldContent)
             newLines == split(newContent)
             lineDiff == Len(newLines) - Len(oldLines)
         IN IF lineDiff > 0 THEN [additions |-> lineDiff, deletions |-> 0]
            ELSE IF lineDiff < 0 THEN [additions |-> 0, deletions |-> -lineDiff]
            ELSE changeMarker(countMissing(newLines, oldLines),
                              countMissing(oldLines, newLines))

(* SpecDiff: calculateLineChanges applied to drawn pairs of contents       *)

InitDiff ==
    /\ now = DAY_MS
    /\ ticks = 0
    /\ storage = InitStorage(now, 0)
    /\ \E oldContent \in Contents, newContent \in Contents :
          lc = [used |-> TRUE, done |-> FALSE, oldContent |-> oldContent,
                newContent |-> newContent,
                result |-> [additions |-> 0, deletions |-> 0]]
    /\ SyncUnused /\ TrackUnused /\ StoreUnused /\ AggUnused /\ SchedUnused

ApplyCalculateLineChanges ==
    /\ lc.used /\ ~lc.done
    /\ lc' = [lc EXCEPT !.done = TRUE,
                        !.result = calculateLineChanges(lc.oldContent, lc.newContent)]
    /\ UNCHANGED <<clockVars, storage, syncVars, trackVars, storeVars, ag, sc>>

NextDiff == ApplyCalculateLineChanges

SpecDiff == InitDiff /\ [][NextDiff]_vars

\* The number of line breaks of a content.
Breaks(content) == Cardinality({i \in DOMAIN content : content[i] = "\n"})

\* The lines of a content as a set, read off the characters: the maximal
\* stretches without a line break.
LineSet(content) ==
    LET n == Len(content)
        brk == {0, n + 1} \cup {i \in 1..n : content[i] = "\n"}
    IN {SubSeq(content, i + 1, j - 1) :
            <<i, j>> \in {<<i, j>> \in brk \X brk :
                             i < j /\ \A k \in brk : ~(i < k /\ k < j)}}

NoChange == [additions |-> 0, deletions |-> 0]

\* C15: for a non-empty old content and a new content that differs from it
\* the result is never {0, 0}.
C15_NonZeroFloor ==
    lc.used /\ lc.done /\ lc.oldContent # <<>> /\ lc.newContent # lc.oldContent
        => lc.result # NoChange

\* C16 as stated: no previous content or identical content gives {0, 0};
\* d more lines give {d, 0}; d fewer lines give {0, d}; the same number of
\* lines with a different content gives {1, 1}.
C16_DecisionTable ==
    lc.used /\ lc.done =>
        LET d == Breaks(lc.newContent) - Breaks(lc.oldContent)
        IN lc.result =
             IF lc.oldContent = <<>> \/ lc.oldContent = lc.newContent THEN NoChange
             ELSE IF d > 0 THEN [additions |-> d, deletions |-> 0]
             ELSE IF d < 0 THEN [additions |-> 0, deletions |-> -d]
             ELSE [additions |-> 1, deletions |-> 1]

\* C16 amended: as stated for no previous content, identical content and
\* differing line counts; with the same number of lines and a different
\* content the result is {1, 1} when as many lines of the new content are
\* missing from the old one as lines of the old content are missing from the
\* new one, and at least one is; otherwise it is these two numbers (both are
\* 0 when the same lines are reordered).
C16_DecisionTableAmended ==
    lc.used /\ lc.done =>
        LET d == Breaks(lc.newContent) - Breaks(lc.oldContent)
            newLines == split(lc.newContent)
            oldLines == split(lc.oldContent)
            a == Cardinality({i \in DOMAIN newLines :
                                 newLines[i] \notin LineSet(lc.oldContent)})
            r == Cardinality({i \in DOMAIN oldLines :
                                 oldLines[i] \notin LineSet(lc.newContent)})
        IN /\ lc.oldContent = <<>> \/ lc.oldContent = lc.newContent
                 => lc.result = NoChange
           /\ lc.oldContent # <<>> /\ d > 0
                 => lc.result = [additions |-> d, deletions |-> 0]
           /\ lc.oldContent # <<>> /\ d < 0
                 => lc.result = [additions |-> 0, deletions |-> -d]
           /\ lc.oldContent # <<>> /\ lc.oldContent # lc.newContent /\ d = 0
                 => /\ a = r /\ a > 0 => lc.result = [additions |-> 1, deletions |-> 1]
                    /\ ~(a = r /\ a > 0) => lc.result = [additions |-> a, deletions |-> r]

\* diff("a\nb", "a\na"): the same number of lines, one line of the old
\* content is gone and no new line came: {0, 1}.
C16_Witness ==
    /\ lc.used /\ lc.done
    /\ lc.oldContent = <<"a", "\n", "b">>
    /\ lc.newContent = <<"a", "\n", "a">>
    /\ lc.result = [additions |-> 0, deletions |-> 1]


-----------------------------------------------------------------------------
(* pulse service isActive() and getTodayTotal() between pulses             *)

isActive_FlagOnly(context, t) == context.isActive

\* pulse service isActive(): the active flag and the time since the last
\* activity within the idle threshold.
isActive(context, t) ==
    LET timeSinceLastActivity == t - context.lastActivityTime
    IN context.isActive /\ timeSinceLastActivity <= IDLE_THRESHOLD

\* Every gap between consecutive activity stamps is within the idle threshold.
AllWithinIdleThreshold(stamps) ==
    \A i \in 1..(Len(stamps) - 1) : stamps[i + 1] - stamps[i] <= IDLE_THRESHOLD

\* More than IDLE_THRESHOLD has passed since the last folded pulse.
IdleSince(context, t) == t - context.lastActivityTime > IDLE_THRESHOLD

\* C17: after folded pulses that are all within the idle threshold, and
\* while no more than the threshold has passed since the last one,
\* isActive() is true; once more than IDLE_THRESHOLD has passed since the
\* last pulse, isActive() is false, getTodayTotal() shows the accumulated
\* total without the elapsed time, and as long as no pulse is folded the
\* value it shows does not increase.
C17_IdleDetection ==
    /\ [](th.used =>
            /\ (Len(th.stamps) >= 2 /\ AllWithinIdleThreshold(th.stamps)
                  /\ ~IdleSince(ctx, now)) => isActive(ctx, now)
            /\ IdleSince(ctx, now) =>
                  ~isActive(ctx, now) /\ displayedTotal(ctx, now) = ctx.todayTotal)
    /\ [][(th.used /\ IdleSince(ctx, now)
             /\ ctx'.lastActivityTime = ctx.lastActivityTime)
          => displayedTotal(ctx', now') <= displayedTotal(ctx, now)]_vars

\* Two pulses were folded within the idle threshold of each other, the
\* active flag is set, and more than the threshold has passed since.
C17_Witness ==
    /\ th.used /\ Len(th.stamps) >= 3 /\ AllWithinIdleThreshold(th.stamps)
    /\ ctx.isActive /\ IdleSince(ctx, now) /\ tr.pc = "idle"
    /\ displayedTotal(ctx, now) > th.initTotal


-----------------------------------------------------------------------------
(* trackActivity when a save fails (pulse service, lines 256-281)          *)

\* The fields of the tracking context the pulse service works with.
tracked(context) ==
    [pulses |-> context.pulses, aggregatedPulses |-> context.aggregatedPulses,
     todayTotal |-> context.todayTotal,
     lastActivityTime |-> context.lastActivityTime,
     isActive |-> context.isActive,
     lastPulse |-> IF "lastPulse" \in DOMAIN context THEN <<context.lastPulse>>
                   ELSE <<>>]

\* C18: when savePulses, saveAggregatedPulses or saveTodayTotal has failed
\* during trackActivity and the returned promise has rejected, the in-memory
\* tracking context (pending pulses, aggregated pulses, todayTotal,
\* lastActivityTime, isActive, lastPulse) is what it was before the call.
C18_FailureAtomicity ==
    tr.pc = "rejected" => tracked(ctx) = tracked(tr.before)


-----------------------------------------------------------------------------
(* Properties of SpecSync: how syncPulses() settles                        *)

\* Every attempt of the run called the backend, and the run gave up.
NetworkFailure(run) ==
    run.outcome = "failed" /\ run.attempts > 0 /\ run.sends >= run.attempts

NoCredentialStep(r) ==
    runs[r].pc = "getApiKey" /\ ~apiKey /\ runs'[r].pc # "getApiKey"

\* C20: when a sync has read a non-empty durable queue and finds no valid
\* credential, it makes no network call and no attempt, records the status
\* isOnline = false / apiStatus = 'error' with pendingPulses = the number of
\* queued items it read, leaves both durable queues unchanged, releases the
\* single-flight guard and resolves.
C20_MissingCredential ==
    /\ [][\A r \in Runs :
            NoCredentialStep(r) =>
                /\ Len(runs[r].pendingPulses) + Len(runs[r].aggregatedPulses) > 0
                /\ runs'[r].pc = "resolved" /\ runs'[r].outcome = "noApiKey"
                /\ runs'[r].sends = 0 /\ runs'[r].attempts = 0
                /\ storage'.syncStatus # NoStatus
                /\ storage'.syncStatus.isOnline = FALSE
                /\ storage'.syncStatus.apiStatus = "error"
                /\ storage'.syncStatus.pendingPulses =
                       Len(runs[r].pendingPulses) + Len(runs[r].aggregatedPulses)
                /\ storage'.syncStatus.lastError = "No valid API key found"
                /\ storage'.pendingPulses = storage.pendingPulses
                /\ storage'.aggregatedPulses = storage.aggregatedPulses
                /\ isSyncing /\ ~isSyncing']_vars
    /\ [](\A r \in Runs :
            runs[r].outcome = "noApiKey" =>
                /\ runs[r].pc = "resolved"
                /\ runs[r].sends = 0 /\ runs[r].attempts = 0)

\* A sync found both durable queues non-empty and no credential; the queues
\* still hold the two items, the status reports them and the guard is free.
C20_Witness ==
    \E r \in Runs :
        /\ runs[r].pc = "resolved" /\ runs[r].outcome = "noApiKey"
        /\ Len(storage.pendingPulses) = 1 /\ Len(storage.aggregatedPulses) = 1
        /\ storage.syncStatus # NoStatus
        /\ storage.syncStatus.pendingPulses = 2
        /\ storage.syncStatus.apiStatus = "error"
        /\ ~isSyncing


-----------------------------------------------------------------------------
(* Properties of SpecSync: the list syncToBackend hands to batching        *)

\* The items are in non-decreasing order of their identity timestamps.
OrderedByIdentity(items) ==
    \A i \in 1..(Len(items) - 1) : identity(items[i]) <= identity(items[i + 1])

\* C21: the list an attempt sends in batches holds the raw and the
\* aggregated pulses the sync read, sorted ascending by identity timestamp
\* (time for raw, start_time for aggregated).
C21_ChronologicalMerge ==
    \A r \in Runs :
        runs[r].pc = "syncBatch" =>
            /\ Len(runs[r].allItems) =
                   Len(runs[r].pendingPulses) + Len(runs[r].aggregatedPulses)
            /\ Range(runs[r].allItems) =
                   Range(runs[r].pendingPulses) \cup Range(runs[r].aggregatedPulses)
            /\ OrderedByIdentity(runs[r].allItems)


\* C22: within one attempt a batch other than the first is sent only in the
\* step in which the batch before it was acknowledged as successful; after
\* a failed batch no further batch of that attempt is sent, and the attempt
\* is a failure (it is retried after the backoff or the sync gives up).  An
\* attempt succeeds only when its last batch was acknowledged.
C22_SequentialBatches ==
    /\ [][\A r \in Runs :
            /\ (runs[r].pc = "syncBatch" /\ runs'[r].sends > runs[r].sends) =>
                   /\ runs'[r].pc = "syncBatch"
                   /\ runs'[r].sends = runs[r].sends + 1
                   /\ runs'[r].i = runs[r].i + MAX_BATCH_SIZE
                   /\ runs'[r].i < Len(runs[r].allItems)
                   /\ runs'[r].failedBatch = 0
            /\ runs[r].pc = "attemptFailed" =>
                   /\ runs'[r].sends = runs[r].sends
                   /\ runs'[r].pc \in {"attemptFailed", "backoff", "finally"}
                   /\ runs'[r].pc = "finally" => runs'[r].outcome = "failed"]_vars
    /\ [](\A r \in Runs :
            /\ runs[r].pc = "syncBatch" => runs[r].failedBatch = 0
            /\ runs[r].pc = "attemptSucceeded" =>
                   /\ runs[r].failedBatch = 0
                   /\ runs[r].i + MAX_BATCH_SIZE >= Len(runs[r].allItems))

\* The first attempt failed at its first batch, leaving the second unsent;
\* the retry had its first batch acknowledged and failed at the second.
C22_Witness ==
    \E r \in Runs :
        /\ runs[r].pc = "attemptFailed"
        /\ runs[r].retryCount = 1
        /\ Len(runs[r].allItems) = 2
        /\ runs[r].failedBatch = 2
        /\ runs[r].sends = 3


-----------------------------------------------------------------------------
(* Properties of SpecSync: the status written after a successful sync      *)

\* storageService.getSyncStatus().syncCount of the stored status.
syncCountOf(s) == getSyncStatus(s, now).syncCount

\* The step in which the status of a fully successful sync is written.
SuccessStep(r) == runs[r].pc = "cleared" /\ runs'[r].pc = "finally"

\* C23: the write that follows a sync in which all batches succeeded leaves
\* the persisted status with lastSyncTime = now, nextSyncTime = now + the
\* sync interval, syncCount = the previous syncCount + 1, isOnline = true,
\* apiStatus = 'ok', pendingPulses = 0 and no lastError; no step of any
\* sync decreases syncCount.
C23_SuccessStatus ==
    /\ [][\A r \in Runs :
            SuccessStep(r) =>
                /\ runs'[r].outcome = "ok"
                /\ storage'.syncStatus =
                       [lastSyncTime |-> now, nextSyncTime |-> now + SYNC_INTERVAL,
                        syncCount |-> syncCountOf(storage) + 1,
                        isOnline |-> TRUE, apiStatus |-> "ok",
                        pendingPulses |-> 0, lastError |-> Undefined]]_vars
    /\ [][syncCountOf(storage') >= syncCountOf(storage)]_vars

\* Two syncs have succeeded, the second one a second after the first.
C23_Witness ==
    /\ storage.syncStatus # NoStatus
    /\ storage.syncStatus.syncCount = 2
    /\ storage.syncStatus.apiStatus = "ok"
    /\ storage.syncStatus.lastSyncTime = now
    /\ now > DAY_MS
    /\ \A r \in Runs : runs[r].pc = "resolved" /\ runs[r].outcome = "ok"


-----------------------------------------------------------------------------
(* SpecSched: createSyncService (sync.ts lines 570-651): scheduleSync,     *)
(* the interval callback and stopSync, over performSync; a valid API key   *)
(* is stored throughout and trackers append raw pulses                      *)

\* let syncInterval: NodeJS.Timeout | null = null
NoTimer == 0

\* The handle setInterval returns: a timer that does not exist yet.
newTimer(timers) ==
    CHOOSE id \in 1..(Cardinality(DOMAIN timers) + 1) :
        /\ id \notin DOMAIN timers
        /\ \A other \in 1..(id - 1) : other \in DOMAIN timers

\* setInterval(callback, CONFIG.SYNC.INTERVAL): the timer and its next
\* expiry.
setInterval(timers, id, t) ==
    [timer \in DOMAIN timers \cup {id} |->
        IF timer = id THEN t + SYNC_INTERVAL ELSE timers[timer]]

\* clearInterval(syncInterval)
clearInterval(timers, id) == [timer \in DOMAIN timers \ {id} |-> timers[timer]]

InitSched ==
    /\ now = DAY_MS
    /\ ticks = 0
    /\ storage = InitStorage(now, 0)
    /\ apiKey = TRUE
    /\ isSyncing = FALSE
    /\ runs = [r \in Runs |-> NewRun]
    /\ appends = 0
    /\ sc = [used |-> TRUE, syncInterval |-> NoTimer, timers |-> <<>>,
             calls |-> 0, stopRun |-> 0, atStop |-> {}, stopBusy |-> FALSE]
    /\ TrackUnused /\ StoreUnused /\ AggUnused /\ DiffUnused

\* Time passes: a backoff period, or the period of the sync interval.
SchedTick ==
    /\ ticks < MaxSyncTicks
    /\ \E d \in {INITIAL_BACKOFF, SYNC_INTERVAL} : now' = now + d
    /\ ticks' = ticks + 1
    /\ UNCHANGED <<storage, syncVars, trackVars, storeVars, ag, lc, sc>>

alreadyScheduled_Never == FALSE

\* scheduleSync: if (syncInterval) return
alreadyScheduled == sc.syncInterval # NoTimer

\* scheduleSync(): a no-op while a timer is set; else performSync() is
\* started without waiting for it and the interval timer is created.
ScheduleSync ==
    /\ sc.calls < MaxSchedCalls
    /\ IF alreadyScheduled
       THEN /\ sc' = [sc EXCEPT !.calls = @ + 1]
            /\ UNCHANGED <<clockVars, storage, syncVars, trackVars, storeVars, ag, lc>>
       ELSE /\ \E r \in Runs : performSync(r)
            /\ LET id == newTimer(sc.timers)
               IN sc' = [sc EXCEPT !.calls = @ + 1, !.syncInterval = id,
                                   !.timers = setInterval(@, id, now)]

\* The interval callback: performSync(), its rejection caught and logged.
IntervalFires ==
    \E id \in DOMAIN sc.timers :
        /\ now >= sc.timers[id]
        /\ \E r \in Runs : performSync(r)
        /\ sc' = [sc EXCEPT !.timers[id] = @ + SYNC_INTERVAL]

StopSync_NoDrain ==
    /\ sc.calls < MaxSchedCalls
    /\ sc' = [sc EXCEPT !.calls = @ + 1, !.syncInterval = NoTimer,
                        !.timers = clearInterval(@, sc.syncInterval),
                        !.stopRun = 0,
                        !.atStop = Range(storage.pendingPulses)
                                     \cup Range(storage.aggregatedPulses),
                        !.stopBusy = isSyncing]
    /\ UNCHANGED <<clockVars, storage, syncVars, trackVars, storeVars, ag, lc>>

\* stopSync(): the timer, if any, is cleared and syncInterval reset; then
\* performSync() is called.  stopRun, atStop and stopBusy note the call.
StopSync ==
    /\ sc.calls < MaxSchedCalls
    /\ \E r \in Runs :
          /\ performSync(r)
          /\ sc' = [sc EXCEPT !.calls = @ + 1, !.syncInterval = NoTimer,
                              !.timers = clearInterval(@, sc.syncInterval),
                              !.stopRun = r,
                              !.atStop = Range(storage.pendingPulses)
                                           \cup Range(storage.aggregatedPulses),
                              !.stopBusy = isSyncing]

NextSched ==
    \/ SchedTick
    \/ AppendPulse
    \/ ScheduleSync
    \/ IntervalFires
    \/ StopSync
    \/ SyncReadQueuess
    \/ SyncGotApiKeys
    \/ SyncToBackendStarts
    \/ BatchSucceedss
    \/ BatchFailss
    \/ SyncClears
    \/ SyncRecordSuccesss
    \/ SyncAttemptFaileds
    \/ BackoffExpiress
    \/ SyncFinallys

SpecSched == InitSched /\ [][NextSched]_vars


-----------------------------------------------------------------------------
(* Properties of SpecSched                                                 *)

\* A call of scheduleSync() while a timer is set: the call is counted and
\* syncInterval is still set afterwards (stopSync resets it).
ScheduleWhileActive ==
    /\ sc.syncInterval # NoTimer
    /\ sc'.calls = sc.calls + 1
    /\ sc'.syncInterval # NoTimer

\* C24: at most one sync interval timer exists (the one syncInterval holds),
\* and a scheduleSync() call while a timer is active neither creates a timer
\* nor starts a sync.
C24_ScheduleIdempotent ==
    /\ [](sc.used =>
            /\ Cardinality(DOMAIN sc.timers) <= 1
            /\ DOMAIN sc.timers =
                   IF sc.syncInterval = NoTimer THEN {} ELSE {sc.syncInterval})
    /\ [][sc.used /\ ScheduleWhileActive =>
            /\ sc'.timers = sc.timers
            /\ sc'.syncInterval = sc.syncInterval
            /\ runs' = runs /\ isSyncing' = isSyncing /\ storage' = storage]_vars

\* scheduleSync() was called three times in a row: one timer, one sync.
C24_Witness ==
    /\ sc.used /\ sc.calls = 3 /\ sc.syncInterval # NoTimer
    /\ runs[1].pc # "new" /\ runs[2].pc = "new"

\* A call of stopSync().
StopStep == sc'.calls = sc.calls + 1 /\ sc'.syncInterval = NoTimer

\* C25 as stated: whenever stopSync() is called with a non-empty queue and
\* a valid credential, also while another sync is in flight, the sync it
\* requests is made (it is not dropped).
C25_FinalDrain ==
    (sc.used /\ sc.stopRun # 0 /\ sc.atStop # {}) =>
        runs[sc.stopRun].pc # "skipped"

\* C25 amended: stopSync() cancels the interval timer and requests one final
\* sync.  When no sync is in flight and the queue is non-empty (a valid
\* credential being stored), the sync reads every item queued at the moment
\* of the call and makes an attempt that sends them; when another sync is in
\* flight the request is dropped by the single-flight guard: it makes no
\* attempt and sends nothing.
C25_FinalDrainUnlessInFlight ==
    /\ [][sc.used /\ StopStep =>
            /\ DOMAIN sc'.timers = {}
            /\ sc'.stopRun \in Runs
            /\ runs[sc'.stopRun].pc = "new"
            /\ IF isSyncing
               THEN /\ runs'[sc'.stopRun].pc = "skipped"
                    /\ storage' = storage
               ELSE /\ runs'[sc'.stopRun].pc = "saveTodayTotal"
                    /\ isSyncing']_vars
    /\ [](sc.used /\ sc.stopRun # 0 =>
            LET run == runs[sc.stopRun]
            IN IF sc.stopBusy
               THEN run.pc = "skipped" /\ run.attempts = 0 /\ run.sends = 0
               ELSE sc.atStop # {} =>
                      /\ run.pc \in AfterReadPcs =>
                            sc.atStop \subseteq Range(run.pendingPulses)
                                                  \cup Range(run.aggregatedPulses)
                      /\ run.pc = "syncBatch" => sc.atStop \subseteq Range(run.allItems)
                      /\ run.pc \in {"resolved", "rejected"} =>
                            /\ run.attempts >= 1 /\ run.sends >= 1
                            /\ run.outcome \in {"ok", "failed"})

\* stopSync() was called while a sync was in flight that had read the queue
\* before the latest pulse was queued: the request was dropped, the sync in
\* flight has succeeded, and that pulse is still queued.
C25_Witness ==
    /\ sc.used /\ sc.stopRun = 2 /\ sc.stopBusy
    /\ runs[2].pc = "skipped"
    /\ runs[1].pc = "resolved" /\ runs[1].outcome = "ok"
    /\ Range(storage.pendingPulses) \cap sc.atStop # {}


-----------------------------------------------------------------------------
(* trackActivity without an editor (pulse service, lines 256-260)          *)

\* The step in which trackActivity is called with no editor and returns.
NoEditorStep == tr.pc = "idle" /\ tr'.pc = "returned"

\* C26: trackActivity with no editor leaves the in-memory tracking context
\* and every key of the durable store (the two queues, the today-total keys
\* and the sync status) unchanged, and its promise resolves.
C26_NoEditorNoOp ==
    [][/\ NoEditorStep => ctx' = ctx /\ storage' = storage
       /\ tr.pc = "returned" => tr'.pc \in {"returned", "idle"}]_vars

\* A call without an editor has returned while the context held a pending
\* pulse, an active session and an accrued total, on the day after the
\* instance started.
C26_Witness ==
    /\ tr.pc = "returned"
    /\ ctx.pulses # <<>> /\ ctx.isActive /\ ctx.todayTotal > th.initTotal
    /\ getCurrentDateString(now) # th.firstDay


-----------------------------------------------------------------------------
(* SpecBuild: createPulse and the diff baseline kept by updateContext      *)
(* (pulse service, lines 77-118, 136-138, 262), on drawn documents         *)

\* The documents of the editor: file name and text.
Documents ==
    {"a.ts", "b.ts"} \X {<<>>, <<"a">>, <<"b">>, <<"a", "\n", "b">>}

\* createPulse: the line changes of the document against lastFileContent.
\* The test filePath === document.fileName compares document.fileName with
\* itself.
lineChangesOf(document, lastFileContent) ==
    LET filePath == document[1]
        currentContent == document[2]
    IN IF lastFileContent # <<>> /\ filePath = document[1]
       THEN calculateLineChanges(lastFileContent, currentContent)
       ELSE [additions |-> 0, deletions |-> 0]

\* createPulse(editor, state, lastFileContent, systemService), the pulse
\* returned at time t; content is the transient text of the document.
createPulse(document, state, lastFileContent, t) ==
    LET lineChanges == lineChangesOf(document, lastFileContent)
    IN updateObject(Pulse(document[1], state, t, lineChanges.additions,
                          lineChanges.deletions, Breaks(document[2]) + 1),
                    [content |-> document[2]])

\* context.lastPulse?.entity
lastEntity(context) ==
    IF "lastPulse" \in DOMAIN context THEN context.lastPulse.entity ELSE Undefined

\* updateContext: the content stored for the next comparison.
nextFileContent(context, pulse) ==
    IF pulse.entity = lastEntity(context)
    THEN (IF pulse.content # <<>> THEN pulse.content ELSE context.lastFileContent)
    ELSE (IF pulse.content # <<>> THEN pulse.content ELSE <<>>)

InitBuild ==
    /\ now = DAY_MS
    /\ ticks = 0
    /\ storage = InitStorage(now, 0)
    /\ ctx = updateObject(InitContext(storage, now), [lastFileContent |-> <<>>])
    /\ tr = [pc |-> "idle", builds |-> 0]
    /\ th = [used |-> FALSE]
    /\ SyncUnused /\ StoreUnused /\ AggUnused /\ DiffUnused /\ SchedUnused

\* trackActivity: createPulse(editor, state, currentContext.lastFileContent,
\* systemService) reads the document and the baseline, then awaits
\* getSystemInfo.
BuildPulse(document) ==
    /\ tr.pc = "idle"
    /\ tr.builds < MaxBuilds
    /\ tr' = [pc |-> "createPulse", builds |-> tr.builds + 1,
              document |-> document, lastFileContent |-> ctx.lastFileContent]
    /\ UNCHANGED <<clockVars, storage, syncVars, ctx, th, storeVars, ag, lc, sc>>

\* createPulse returns and the pulse is folded; previous notes the entity of
\* the pulse folded before this one.
BuildFold ==
    /\ tr.pc = "createPulse"
    /\ LET pulse == createPulse(tr.document, "coding", tr.lastFileContent, now)
       IN /\ ctx' = updateObject(foldPulse(ctx, pulse, now),
                        [lastFileContent |-> nextFileContent(ctx, pulse)])
          /\ tr' = [pc |-> "idle", builds |-> tr.builds, pulse |-> pulse,
                    previous |-> lastEntity(ctx)]
    /\ UNCHANGED <<clockVars, storage, syncVars, th, storeVars, ag, lc, sc>>

BuildPulses == \E document \in Documents : BuildPulse(document)

NextBuild == BuildPulses \/ BuildFold

SpecBuild == InitBuild /\ [][NextBuild]_vars

\* C27: the first pulse built for an entity different from the entity of
\* the pulse before it is compared with an empty baseline: its
\* line_additions and line_deletions are 0.
C27_EntityKeyedBaseline ==
    (tr.pc = "idle" /\ tr.builds > 0 /\ tr.previous # Undefined
        /\ tr.pulse.entity # tr.previous) =>
            tr.pulse.line_additions = 0 /\ tr.pulse.line_deletions = 0


-----------------------------------------------------------------------------
(* Properties of SpecTrack: the entity of an aggregated record             *)

\* The record a fold has just appended to the in-memory aggregated list.
newRecord == ctx'.aggregatedPulses[Len(ctx'.aggregatedPulses)]

\* C28: every aggregated record produced by a fold summarizes raw pulses of
\* one entity: the pulses that were pending and the pulse just folded all
\* have the entity of the record.
C28_SingleEntityRecords ==
    [][FoldStep /\ Aggregated =>
          /\ tr'.pulse.entity = newRecord.entity
          /\ \A i \in DOMAIN ctx.pulses :
                /\ newRecord.start_time <= ctx.pulses[i].time
                /\ ctx.pulses[i].time <= newRecord.end_time
                /\ ctx.pulses[i].entity = newRecord.entity]_vars


-----------------------------------------------------------------------------
(* SpecOverlap: trackActivity calls of one instance that overlap: a call   *)
(* may start (after the throttle period) while an earlier one is suspended *)
(* in an await (pulse service, lines 256-281)                              *)

OverlapCalls == 1..MaxOverlap

InitOverlap ==
    /\ now = TrackStart
    /\ ticks = 0
    /\ storage = InitStorage(now, 0)
    /\ ctx = InitContext(storage, now)
    /\ tr = [c \in OverlapCalls |-> [pc |-> "new", called |-> now]]
    /\ th = [used |-> FALSE, produced |-> <<>>]
    /\ SyncUnused /\ StoreUnused /\ AggUnused /\ DiffUnused /\ SchedUnused

OverlapTick ==
    /\ ticks < MaxTrackTicks
    /\ now' = now + ACTIVITY_THRESHOLD
    /\ ticks' = ticks + 1
    /\ UNCHANGED <<storage, syncVars, trackVars, storeVars, ag, lc, sc>>

\* The time of the latest call that passed the throttle.
lastCalled(c) == IF c = 1 THEN tr[1].called ELSE tr[c - 1].called

\* trackEditorActivity (throttle) -> trackActivity(editor, state), whatever
\* the earlier calls are doing.
OverlapCall(c, entity, additions) ==
    /\ tr[c].pc = "new"
    /\ \A q \in OverlapCalls : q < c => tr[q].pc # "new"
    /\ ~(now - lastCalled(c) < ACTIVITY_THRESHOLD)
    /\ tr' = [tr EXCEPT ![c] =
                [pc |-> "createPulse", called |-> now,
                 pulse |-> Pulse(entity, "coding", 0, additions, 0, 10 + additions)]]
    /\ UNCHANGED <<clockVars, storage, syncVars, ctx, th, storeVars, ag, lc, sc>>

\* createPulse returns; the pulse is folded; savePulses([pulse]) is called.
\* produced lists the aggregated records the folds have produced.
OverlapFold(c) ==
    /\ tr[c].pc = "createPulse"
    /\ LET pulse == [tr[c].pulse EXCEPT !.time = now]
           c2 == foldPulse(ctx, pulse, now)
       IN /\ ctx' = c2
          /\ tr' = [tr EXCEPT ![c].pc = "savePulses", ![c].pulse = pulse]
          /\ th' = IF Len(c2.aggregatedPulses) = Len(ctx.aggregatedPulses) + 1
                   THEN [th EXCEPT !.produced =
                           Append(@, c2.aggregatedPulses[Len(c2.aggregatedPulses)])]
                   ELSE th
    /\ storage' = checkDayChange(storage, now)
    /\ UNCHANGED <<clockVars, syncVars, storeVars, ag, lc, sc>>

OverlapSavePulsesThen(c) ==
    /\ tr[c].pc = "savePulses"
    /\ storage' = savePulsesThen(storage, <<tr[c].pulse>>)
    /\ tr' = [tr EXCEPT ![c].pc = "afterSavePulses"]
    /\ UNCHANGED <<clockVars, syncVars, ctx, th, storeVars, ag, lc, sc>>

\* After await savePulses: the aggregated list as it is now is handed to
\* saveAggregatedPulses, if it is not empty.
OverlapAfterSavePulses(c) ==
    /\ tr[c].pc = "afterSavePulses"
    /\ storage' = checkDayChange(storage, now)
    /\ tr' = [tr EXCEPT ![c] =
                IF Len(ctx.aggregatedPulses) > 0
                THEN updateObject(@, [pc |-> "saveAggregatedPulses",
                                      aggregated |-> ctx.aggregatedPulses])
                ELSE updateObject(@, [pc |-> "saveTodayTotal",
                                      total |-> ctx.todayTotal])]
    /\ UNCHANGED <<clockVars, syncVars, ctx, th, storeVars, ag, lc, sc>>

OverlapSaveAggregatedThen(c) ==
    /\ tr[c].pc = "saveAggregatedPulses"
    /\ storage' = saveAggregatedPulsesThen(storage, tr[c].aggregated)
    /\ tr' = [tr EXCEPT ![c].pc = "afterSaveAggregatedPulses"]
    /\ UNCHANGED <<clockVars, syncVars, ctx, th, storeVars, ag, lc, sc>>

\* After await saveAggregatedPulses: the in-memory aggregated list, as it is
\* now, is emptied.
OverlapAfterSaveAggregated(c) ==
    /\ tr[c].pc = "afterSaveAggregatedPulses"
    /\ ctx' = updateObject(ctx, [aggregatedPulses |-> <<>>])
    /\ storage' = checkDayChange(storage, now)
    /\ tr' = [tr EXCEPT ![c] = updateObject(@, [pc |-> "saveTodayTotal",
                                                 total |-> ctx.todayTotal])]
    /\ UNCHANGED <<clockVars, syncVars, th, storeVars, ag, lc, sc>>

OverlapSaveTodayTotalThen(c) ==
    /\ tr[c].pc = "saveTodayTotal"
    /\ storage' = saveTodayTotalThen(storage, tr[c].total, now)
    /\ tr' = [tr EXCEPT ![c] = [pc |-> "resolved", called |-> @.called]]
    /\ UNCHANGED <<clockVars, syncVars, ctx, th, storeVars, ag, lc, sc>>

OverlapCalling == \E c \in OverlapCalls, ed \in EditorStates : OverlapCall(c, ed[1], ed[2])
OverlapFolding == \E c \in OverlapCalls : OverlapFold(c)
OverlapSavingPulses == \E c \in OverlapCalls : OverlapSavePulsesThen(c)
OverlapSavedPulses == \E c \in OverlapCalls : OverlapAfterSavePulses(c)
OverlapSavingAggregated == \E c \in OverlapCalls : OverlapSaveAggregatedThen(c)
OverlapSavedAggregated == \E c \in OverlapCalls : OverlapAfterSaveAggregated(c)
OverlapSavingTodayTotal == \E c \in OverlapCalls : OverlapSaveTodayTotalThen(c)

NextOverlap ==
    \/ OverlapTick
    \/ OverlapCalling
    \/ OverlapFolding
    \/ OverlapSavingPulses
    \/ OverlapSavedPulses
    \/ OverlapSavingAggregated
    \/ OverlapSavedAggregated
    \/ OverlapSavingTodayTotal

SpecOverlap == InitOverlap /\ [][NextOverlap]_vars

\* How often a record occurs in a list.
Occurrences(record, list) == Cardinality({i \in DOMAIN list : list[i] = record})

\* C29: each aggregated record produced in memory is in the durable
\* aggregated queue no more often than it was produced (once), is in the
\* in-memory list until it has been persisted (it is never in neither), and
\* is in the durable queue exactly as often as it was produced when all
\* calls have resolved.
C29_PersistedExactlyOnce ==
    \A k \in DOMAIN th.produced :
        LET record == th.produced[k]
            made == Occurrences(record, th.produced)
            durable == Occurrences(record, storage.aggregatedPulses)
            pending == Occurrences(record, ctx.aggregatedPulses)
        IN /\ durable <= made
           /\ pending + durable >= made
           /\ (\A c \in OverlapCalls : tr[c].pc = "resolved") => durable = made


-----------------------------------------------------------------------------
\* The sync engine with rejected storage operations and a fair scheduler.

\* The error a rejected storage operation carries.
StorageError == "storage"

\* saveTodayTotal rejects: the outer catch releases the flag and rethrows.
SyncSaveTodayTotalRejects(r) ==
    /\ runs[r].pc = "saveTodayTotal"
    /\ isSyncing' = FALSE
    /\ runs' = [runs EXCEPT ![r] = Ended(@, "rejected", StorageError)]
    /\ UNCHANGED <<clockVars, storage, apiKey, appends, trackVars, storeVars, ag, lc, sc>>

\* performSync after getApiKey, without a key: the flag is released and the
\* updateSyncStatus it returns rejects; the rejection travels to the outer
\* catch.
SyncNoKeyStatusRejects(r) ==
    /\ runs[r].pc = "getApiKey"
    /\ ~apiKey
    /\ isSyncing' = FALSE
    /\ runs' = [runs EXCEPT ![r] = Ended(@, "outerCatch", StorageError)]
    /\ UNCHANGED <<clockVars, storage, apiKey, appends, trackVars, storeVars, ag, lc, sc>>

SyncOuterCatch_KeepsFlag(r) ==
    /\ runs[r].pc = "outerCatch"
    /\ isSyncing' = TRUE
    /\ runs' = [runs EXCEPT ![r].pc = "rejected"]
    /\ UNCHANGED <<clockVars, storage, apiKey, appends, trackVars, storeVars, ag, lc, sc>>

\* The outer catch: isSyncing = false; throw e.
SyncOuterCatch(r) ==
    /\ runs[r].pc = "outerCatch"
    /\ isSyncing' = FALSE
    /\ runs' = [runs EXCEPT ![r].pc = "rejected"]
    /\ UNCHANGED <<clockVars, storage, apiKey, appends, trackVars, storeVars, ag, lc, sc>>

\* One of the two clears rejects: Promise.all rejects and attemptSync's catch
\* takes the storage error as the error of the attempt.
SyncClearRejects(r) ==
    /\ runs[r].pc = "attemptSucceeded"
    /\ runs' = [runs EXCEPT ![r].pc = "attemptFailed", ![r].failedBatch = 0,
                            ![r].errorDetails = StorageError]
    /\ UNCHANGED <<clockVars, storage, apiKey, isSyncing, appends, trackVars, storeVars, ag, lc, sc>>

\* The updateSyncStatus of the success path rejects: attemptSync's catch
\* takes over, as for a failed attempt.
SyncRecordSuccessRejects(r) ==
    /\ runs[r].pc = "cleared"
    /\ runs' = [runs EXCEPT ![r].pc = "attemptFailed", ![r].failedBatch = 0,
                            ![r].errorDetails = StorageError]
    /\ UNCHANGED <<clockVars, storage, apiKey, isSyncing, appends, trackVars, storeVars, ag, lc, sc>>

\* The updateSyncStatus of performSync's catch rejects after the last
\* attempt: no status is written and the rejection reaches finally.
SyncFailureStatusRejects(r) ==
    /\ runs[r].pc = "attemptFailed"
    /\ ~mayRetry(runs[r].retryCount)
    /\ storage' = afterAttempt(storage, FALSE, runs[r].pendingPulses,
                               runs[r].aggregatedPulses)
    /\ runs' = [runs EXCEPT ![r].pc = "finally", ![r].outcome = "failed"]
    /\ UNCHANGED <<clockVars, apiKey, isSyncing, appends, trackVars, storeVars, ag, lc, sc>>

\* Time passes while a backoff timer is pending (setTimeout fires).
BackoffPending == \E r \in Runs : runs[r].pc = "backoff" /\ now < runs[r].retryAt

BackoffTimePasses ==
    /\ BackoffPending
    /\ now' = now + INITIAL_BACKOFF
    /\ UNCHANGED <<ticks, storage, syncVars, trackVars, storeVars, ag, lc, sc>>

SyncSaveTodayTotalRejectss == \E r \in Runs : SyncSaveTodayTotalRejects(r)
SyncNoKeyStatusRejectss    == \E r \in Runs : SyncNoKeyStatusRejects(r)
SyncOuterCatchs            == \E r \in Runs : SyncOuterCatch(r)
SyncClearRejectss          == \E r \in Runs : SyncClearRejects(r)
SyncRecordSuccessRejectss  == \E r \in Runs : SyncRecordSuccessRejects(r)
SyncFailureStatusRejectss  == \E r \in Runs : SyncFailureStatusRejects(r)

NextSyncLive ==
    \/ ApiKeyChange
    \/ AppendPulse
    \/ PerformSyncs
    \/ SyncReadQueuess
    \/ SyncGotApiKeys
    \/ SyncToBackendStarts
    \/ BatchSucceedss
    \/ BatchFailss
    \/ SyncClears
    \/ SyncRecordSuccesss
    \/ SyncAttemptFaileds
    \/ BackoffExpiress
    \/ SyncFinallys
    \/ SyncSaveTodayTotalRejectss
    \/ SyncNoKeyStatusRejectss
    \/ SyncOuterCatchs
    \/ SyncClearRejectss
    \/ SyncRecordSuccessRejectss
    \/ SyncFailureStatusRejectss
    \/ BackoffTimePasses

\* A continuation of the promise chain of sync r: a storage operation or a
\* request settles and its callback runs, or the backoff timer fires.
Continues(r) ==
    \/ SyncReadQueues(r) \/ SyncSaveTodayTotalRejects(r)
    \/ SyncGotApiKey(r) \/ SyncNoKeyStatusRejects(r) \/ SyncOuterCatch(r)
    \/ SyncToBackendStart(r)
    \/ BatchSucceeds(r) \/ (\E d \in ErrorDetails : BatchFails(r, d))
    \/ SyncClear(r) \/ SyncClearRejects(r)
    \/ SyncRecordSuccess(r) \/ SyncRecordSuccessRejects(r)
    \/ SyncAttemptFailed(r) \/ SyncFailureStatusRejects(r)
    \/ BackoffExpires(r)
    \/ SyncFinally(r)

\* The event loop runs every callback that is ready and every timer fires:
\* storage operations settle, and syncBatch settles: fetch answers, throws,
\* or is aborted after SYNC_TIMEOUT_MS; the timer is cleared once the
\* response headers arrived, and reading the body is left to end by the
\* runtime's own body timeout.
SpecSyncLive ==
    /\ InitSync
    /\ [][NextSyncLive]_vars
    /\ \A r \in Runs : WF_vars(Continues(r))
    /\ WF_vars(BackoffTimePasses)

\* A sync that has started and whose promise has not settled.
Started(r) == runs[r].pc \in InFlightPcs \cup {"outerCatch"}

Settled(r) == runs[r].pc \in {"resolved", "rejected"}

\* C30: the sync engine always returns to Idle.  Every started sync
\* eventually settles; the single-flight flag is held only while a started
\* sync has not settled, so once every sync has ended the flag is released;
\* and a request is dropped only while another sync is in flight.
C30_ReturnsToIdle ==
    /\ \A r \in Runs : Started(r) ~> Settled(r)
    /\ [](isSyncing => \E r \in Runs : Started(r))
    /\ [](\A r \in Runs : runs[r].pc = "skipped" => runs[r].busy)

\* A sync ended with a rejected storage operation, the flag is released, and
\* the next request was not dropped: it ran to the end.
C30_Witness ==
    /\ ~isSyncing
    /\ \E r, q \in Runs :
        /\ r < q
        /\ runs[r].pc = "rejected" /\ runs[r].outcome = StorageError
        /\ runs[q].pc = "resolved" /\ runs[q].outcome = "ok"


-----------------------------------------------------------------------------
(* SpecShared: two extension instances (two editor windows) over one store *)
(* pulse.ts createPulseService, trackActivity, startStorageCheck and       *)
(* getTodayTotal, once per instance; storage.ts saveTodayTotal             *)

\* The editor windows; each runs its own pulse service over the same
\* globalState.
Instances == {1, 2}

\* An instance that has not been created.
NotCreated == [pc |-> "absent"]

Created(i) == tr[i].pc # "absent"

\* The clock advances by the throttle period or by a longer pause that is
\* still within the idle threshold.
SharedDeltas == {ACTIVITY_THRESHOLD, 50 * ACTIVITY_THRESHOLD}

\* The first window opens at the start of a day; the stored total is what
\* an earlier session left.
InitShared ==
    /\ now = DAY_MS
    /\ ticks = 0
    /\ \E total \in {0, 1000} : storage = InitStorage(now, total)
    /\ ctx = [i \in Instances |->
                IF i = 1 THEN InitContext(storage, now) ELSE NoContext]
    /\ tr = [i \in Instances |->
                IF i = 1 THEN [pc |-> "idle", lastCall |-> now, calls |-> 0]
                ELSE NotCreated]
    /\ th = [used |-> FALSE, created |-> now, initTotal |-> storage.todayTotal]
    /\ SyncUnused /\ StoreUnused /\ AggUnused /\ DiffUnused /\ SchedUnused

SharedTick ==
    /\ ticks < MaxSharedTicks
    /\ \E d \in SharedDeltas : now' = now + d
    /\ ticks' = ticks + 1
    /\ UNCHANGED <<storage, syncVars, trackVars, storeVars, ag, lc, sc>>

\* createStorageService, createPulseService in another window: the day is
\* checked and the context starts from the stored total.
SharedCreate(i) ==
    /\ ~Created(i)
    /\ storage' = checkDayChange(storage, now)
    /\ ctx' = [ctx EXCEPT ![i] = InitContext(storage', now)]
    /\ tr' = [tr EXCEPT ![i] = [pc |-> "idle", lastCall |-> now, calls |-> 0]]
    /\ UNCHANGED <<clockVars, syncVars, th, storeVars, ag, lc, sc>>

\* trackEditorActivity (throttle) -> trackActivity(editor, state) in window i.
SharedCall(i) ==
    /\ tr[i].pc = "idle"
    /\ tr[i].calls < MaxSharedCalls
    /\ ~(now - tr[i].lastCall < ACTIVITY_THRESHOLD)
    /\ tr' = [tr EXCEPT ![i] =
                [pc |-> "createPulse", lastCall |-> now, calls |-> @.calls + 1,
                 pulse |-> Pulse("a.ts", "coding", 0, 0, 0, 10)]]
    /\ UNCHANGED <<clockVars, storage, syncVars, ctx, th, storeVars, ag, lc, sc>>

\* createPulse returns; the pulse is folded; savePulses([pulse]) is called.
SharedFold(i) ==
    /\ tr[i].pc = "createPulse"
    /\ LET pulse == [tr[i].pulse EXCEPT !.time = now]
       IN /\ ctx' = [ctx EXCEPT ![i] = foldPulse(@, pulse, now)]
          /\ tr' = [tr EXCEPT ![i].pc = "savePulses", ![i].pulse = pulse]
    /\ storage' = checkDayChange(storage, now)
    /\ UNCHANGED <<clockVars, syncVars, th, storeVars, ag, lc, sc>>

SharedSavePulsesThen(i) ==
    /\ tr[i].pc = "savePulses"
    /\ storage' = savePulsesThen(storage, <<tr[i].pulse>>)
    /\ tr' = [tr EXCEPT ![i].pc = "afterSavePulses"]
    /\ UNCHANGED <<clockVars, syncVars, ctx, th, storeVars, ag, lc, sc>>

SharedAfterSavePulses(i) ==
    /\ tr[i].pc = "afterSavePulses"
    /\ storage' = checkDayChange(storage, now)
    /\ tr' = [tr EXCEPT ![i] =
                IF Len(ctx[i].aggregatedPulses) > 0
                THEN updateObject(@, [pc |-> "saveAggregatedPulses",
                                      aggregated |-> ctx[i].aggregatedPulses])
                ELSE updateObject(@, [pc |-> "saveTodayTotal",
                                      total |-> ctx[i].todayTotal])]
    /\ UNCHANGED <<clockVars, syncVars, ctx, th, storeVars, ag, lc, sc>>

SharedSaveAggregatedThen(i) ==
    /\ tr[i].pc = "saveAggregatedPulses"
    /\ storage' = saveAggregatedPulsesThen(storage, tr[i].aggregated)
    /\ tr' = [tr EXCEPT ![i].pc = "afterSaveAggregatedPulses"]
    /\ UNCHANGED <<clockVars, syncVars, ctx, th, storeVars, ag, lc, sc>>

SharedAfterSaveAggregated(i) ==
    /\ tr[i].pc = "afterSaveAggregatedPulses"
    /\ ctx' = [ctx EXCEPT ![i] = updateObject(@, [aggregatedPulses |-> <<>>])]
    /\ storage' = checkDayChange(storage, now)
    /\ tr' = [tr EXCEPT ![i] = updateObject(@, [pc |-> "saveTodayTotal",
                                                total |-> ctx[i].todayTotal])]
    /\ UNCHANGED <<clockVars, syncVars, th, storeVars, ag, lc, sc>>

\* saveTodayTotal, the callback: compare and write; trackActivity resolves.
SharedSaveTodayTotalThen(i) ==
    /\ tr[i].pc = "saveTodayTotal"
    /\ storage' = saveTodayTotalThen(storage, tr[i].total, now)
    /\ tr' = [tr EXCEPT ![i] = [pc |-> "idle", lastCall |-> @.lastCall,
                                calls |-> @.calls]]
    /\ th' = [th EXCEPT !.used = TRUE]
    /\ UNCHANGED <<clockVars, syncVars, ctx, storeVars, ag, lc, sc>>

adoptStoredTotal_Always(context, storedTotal) ==
    updateObject(context, [todayTotal |-> storedTotal])

\* startStorageCheck's callback and getTodayTotal(): if (storedTotal >
\* currentContext.todayTotal) currentContext = updateObject(currentContext,
\* {todayTotal: storedTotal}).
adoptStoredTotal(context, storedTotal) ==
    IF storedTotal > context.todayTotal
    THEN updateObject(context, [todayTotal |-> storedTotal])
    ELSE context

\* The storage-check timer of window i fires.
SharedStorageCheck(i) ==
    /\ Created(i)
    /\ storage' = checkDayChange(storage, now)
    /\ ctx' = [ctx EXCEPT ![i] = adoptStoredTotal(@, storage'.todayTotal)]
    /\ UNCHANGED <<clockVars, syncVars, tr, th, storeVars, ag, lc, sc>>

\* The status bar of window i calls getTodayTotal().
SharedGetTodayTotal(i) ==
    /\ Created(i)
    /\ storage' = checkDayChange(storage, now)
    /\ ctx' = [ctx EXCEPT ![i] = adoptStoredTotal(@, storage'.todayTotal)]
    /\ UNCHANGED <<clockVars, syncVars, tr, th, storeVars, ag, lc, sc>>

SharedCreates               == \E i \in Instances : SharedCreate(i)
SharedCalls                 == \E i \in Instances : SharedCall(i)
SharedFolds                 == \E i \in Instances : SharedFold(i)
SharedSavePulsesThens       == \E i \in Instances : SharedSavePulsesThen(i)
SharedAfterSavePulsess      == \E i \in Instances : SharedAfterSavePulses(i)
SharedSaveAggregatedThens   == \E i \in Instances : SharedSaveAggregatedThen(i)
SharedAfterSaveAggregateds  == \E i \in Instances : SharedAfterSaveAggregated(i)
SharedSaveTodayTotalThens   == \E i \in Instances : SharedSaveTodayTotalThen(i)
SharedStorageChecks         == \E i \in Instances : SharedStorageCheck(i)
SharedGetTodayTotals        == \E i \in Instances : SharedGetTodayTotal(i)

NextShared ==
    \/ SharedTick
    \/ SharedCreates
    \/ SharedCalls
    \/ SharedFolds
    \/ SharedSavePulsesThens
    \/ SharedAfterSavePulsess
    \/ SharedSaveAggregatedThens
    \/ SharedAfterSaveAggregateds
    \/ SharedSaveTodayTotalThens
    \/ SharedStorageChecks
    \/ SharedGetTodayTotals

SpecShared == InitShared /\ [][NextShared]_vars

\* A step in which no trackActivity call moves and the clock stands: a
\* storage-check tick or a getTodayTotal() query of some window.
ReconcileStep == tr' = tr /\ now' = now

\* C31: the in-memory todayTotal of a window never decreases, whatever
\* folds, storage-check ticks and getTodayTotal() queries happen; a
\* storage-check tick changes the context only when the stored total is
\* strictly larger than the in-memory one, and then only by setting
\* todayTotal to the stored total.
C31_MemoryTotalMonotone ==
    [][\A i \in Instances :
          /\ Created(i) => ctx'[i].todayTotal >= ctx[i].todayTotal
          /\ (ReconcileStep /\ ctx'[i] # ctx[i]) =>
                /\ storage'.todayTotal > ctx[i].todayTotal
                /\ ctx'[i] = [ctx[i] EXCEPT !.todayTotal = storage'.todayTotal]
      ]_vars

\* A window holds a total it did not accrue itself: after folds in both
\* windows, one has adopted the larger total the other one stored.
C31_Witness ==
    \E i, j \in Instances :
        /\ i # j
        /\ tr[i].pc = "idle" /\ tr[j].pc = "idle"
        /\ tr[i].calls > 0 /\ tr[j].calls > 0
        /\ ctx[i].todayTotal = storage.todayTotal
        /\ ctx[i].todayTotal > th.initTotal + (ctx[i].lastActivityTime - th.created)


\* C32: in every reachable context isActive is false exactly when
\* activeStartTime is 0; a fold whose gap to the previous activity exceeds
\* the idle threshold sets activeStartTime to 0, a fold within the threshold
\* of a context that is not active sets it to the time of the fold, and a
\* fold within the threshold of an active context leaves it unchanged.
C32_ActiveStartTime ==
    /\ [](th.used => (~ctx.isActive <=> ctx.activeStartTime = 0))
    /\ [][FoldStep =>
            LET gap == now - ctx.lastActivityTime
            IN IF gap > IDLE_THRESHOLD
               THEN ctx'.activeStartTime = 0
               ELSE IF ~ctx.isActive
                    THEN ctx'.activeStartTime = now
                    ELSE ctx'.activeStartTime = ctx.activeStartTime
         ]_vars

\* Three folds: the first after a gap above the threshold (activeStartTime
\* 0), the second within it (armed), the third within it (kept).
C32_Witness ==
    /\ th.used /\ Len(th.stamps) = 4
    /\ th.stamps[2] - th.stamps[1] > IDLE_THRESHOLD
    /\ ctx.isActive
    /\ ctx.activeStartTime = th.stamps[3]
    /\ ctx.lastActivityTime = th.stamps[4]
    /\ th.stamps[4] > th.stamps[3]


-----------------------------------------------------------------------------
(* SpecClear: clearSyncedPulses and clearSyncedAggregatedPulses applied to *)
(* drawn queues (storage.ts 86-91, 105-110)                                *)

\* Raw pulses with few distinct times, so that entries share a key and
\* differ in value.
ClearPulses ==
    {Pulse("a.ts", "coding", t, a, 0, 10 + a) : t \in 1..MaxClearTime, a \in 0..1}

\* The aggregated record of a run made of one pulse: start_time is its time.
recordOf(pulse) ==
    aggregatePulses([NoContext EXCEPT !.pulses = <<pulse>>]).aggregatedPulses[1]

ClearRecords == {recordOf(p) : p \in ClearPulses}

\* Queues and synced lists of up to MaxClearLen entries.
ListsOf(S) == UNION {[1..n -> S] : n \in 0..MaxClearLen}

\* ag holds the call under test: which clear, its argument, the store
\* before the first call and after it, and the number of calls made.
InitClear ==
    /\ now = DAY_MS
    /\ ticks = 0
    /\ \E pending \in ListsOf(ClearPulses), total \in {0, 1000} :
          storage = [InitStorage(now, total) EXCEPT
                        !.pendingPulses = pending,
                        !.aggregatedPulses =
                            [k \in DOMAIN pending |-> recordOf(pending[k])]]
    /\ \E synced \in ListsOf(ClearPulses), raw \in BOOLEAN :
          ag = [used |-> TRUE, raw |-> raw,
                synced |-> IF raw THEN synced
                           ELSE [k \in DOMAIN synced |-> recordOf(synced[k])],
                in |-> storage, once |-> storage, count |-> 0]
    /\ SyncUnused /\ TrackUnused /\ StoreUnused /\ DiffUnused /\ SchedUnused

\* storageService.clearSyncedPulses(synced)
ApplyClearSyncedPulses ==
    /\ ag.raw /\ ag.count < 2
    /\ storage' = clearSyncedPulses(storage, ag.synced)
    /\ ag' = [ag EXCEPT !.count = @ + 1,
                        !.once = IF ag.count = 0 THEN storage' ELSE @]
    /\ UNCHANGED <<clockVars, syncVars, trackVars, storeVars, lc, sc>>

\* storageService.clearSyncedAggregatedPulses(synced)
ApplyClearSyncedAggregatedPulses ==
    /\ ~ag.raw /\ ag.count < 2
    /\ storage' = clearSyncedAggregatedPulses(storage, ag.synced)
    /\ ag' = [ag EXCEPT !.count = @ + 1,
                        !.once = IF ag.count = 0 THEN storage' ELSE @]
    /\ UNCHANGED <<clockVars, syncVars, trackVars, storeVars, lc, sc>>

NextClear ==
    \/ ApplyClearSyncedPulses
    \/ ApplyClearSyncedAggregatedPulses

SpecClear == InitClear /\ [][NextClear]_vars

\* The identity key of a queue entry.
keyOf(item) == IF "time" \in DOMAIN item THEN item.time ELSE item.start_time

\* The entries of a queue whose key is not in keys, in their order.
RECURSIVE Without(_, _)
Without(queue, keys) ==
    IF queue = <<>> THEN <<>>
    ELSE IF keyOf(Head(queue)) \in keys
         THEN Without(Tail(queue), keys)
         ELSE <<Head(queue)>> \o Without(Tail(queue), keys)

\* C33: after clearSyncedPulses(S) (clearSyncedAggregatedPulses(S)) the queue
\* holds exactly the previous entries whose time (start_time) is not the
\* time (start_time) of an element of S, in their previous order; the other
\* queue, the today-total, the date marker and the sync status are as
\* before; a second call with the same S changes nothing.
C33_ClearIsSetDifference ==
    (ag.used /\ ag.count >= 1) =>
        LET keys == {keyOf(ag.synced[k]) : k \in DOMAIN ag.synced}
        IN /\ ag.raw =>
                /\ ag.once.pendingPulses = Without(ag.in.pendingPulses, keys)
                /\ [ag.once EXCEPT !.pendingPulses = ag.in.pendingPulses] = ag.in
           /\ ~ag.raw =>
                /\ ag.once.aggregatedPulses = Without(ag.in.aggregatedPulses, keys)
                /\ [ag.once EXCEPT !.aggregatedPulses = ag.in.aggregatedPulses] = ag.in
           /\ storage = ag.once

\* The clear was applied twice to a queue of two entries with S naming the
\* key of one of them by an element that is not in the queue by value.
C33_Witness ==
    /\ ag.used /\ ag.count = 2
    /\ Len(ag.in.pendingPulses) = 2
    /\ Len(ag.once.pendingPulses) + Len(ag.once.aggregatedPulses) = 3
    /\ \A k \in DOMAIN ag.synced :
          /\ \A j \in DOMAIN ag.in.pendingPulses : ag.synced[k] # ag.in.pendingPulses[j]
          /\ \A j \in DOMAIN ag.in.aggregatedPulses : ag.synced[k] # ag.in.aggregatedPulses[j]


\* C34: every pulse persisted to a durable queue is eventually sent in a
\* successful attempt and removed from the queue, also while trackers keep
\* appending.  The part a finite run decides: a pulse leaves a queue only
\* after an attempt that sent it succeeded, so right after the clear of a
\* successful sync every pulse appended since the sync read the queues (none
\* of which it sent) is still queued.
C34_QueuedUntilSent ==
    \A r \in Runs :
        runs[r].pc = "cleared" =>
            /\ Len(storage.pendingPulses) >= Len(runs[r].lateRaw)
            /\ Len(storage.aggregatedPulses) >= Len(runs[r].lateAggregated)


\* C35 as stated: across all attempts of one sync run no item is contained
\* in more than one batch the backend acknowledged.
C35_NoDuplicateDelivery ==
    \A r \in Runs : \A k \in DOMAIN runs[r].acks : runs[r].acks[k] <= 1

\* C35 amended: within one attempt no item is contained in more than one
\* acknowledged batch; a retry sends every item of the run again, so across
\* the attempts of a run an item is acknowledged at most once per attempt,
\* at most MAX_RETRY_ATTEMPTS + 1 times.
C35_OncePerAttempt ==
    \A r \in Runs : \A k \in DOMAIN runs[r].acks :
        /\ runs[r].acks[k] <= runs[r].retryCount + 1
        /\ runs[r].acks[k] <= MAX_RETRY_ATTEMPTS + 1

\* The first batch was acknowledged in the attempt that failed at the second
\* batch and again in the retry, which succeeded.
C35_Witness ==
    \E r \in Runs :
        /\ runs[r].pc = "attemptSucceeded"
        /\ runs[r].retryCount = 1
        /\ Len(runs[r].acks) = 2
        /\ runs[r].acks[1] = 2 /\ runs[r].acks[2] = 1


\* What a call of the pulse service's getTodayTotal() made in this state
\* returns, before formatting.  The call is possible in every state and
\* does not change what a later call returns, so the successive values
\* returned are the values of this expression along a behaviour.
returnedTotal ==
    displayedTotal(adoptStoredTotal(ctx, checkDayChange(storage, now).todayTotal), now)

\* C36: within one calendar day the value getTodayTotal() returns never
\* decreases, whatever pulses, idle periods and queries happen.
C36_DisplayedTotalMonotone ==
    [][(th.used /\ getCurrentDateString(now') = getCurrentDateString(now))
          => returnedTotal' >= returnedTotal]_vars


\* C37: with two windows sharing one store the stored today-total never
\* exceeds the stored total the first window found plus the wall-clock time
\* that has passed since that window was created.
C37_NoOverCounting ==
    storage.todayTotal <= th.initTotal + (now - th.created)


\* storageService.getSyncStatus().lastSyncTime
lastSyncTimeOf(s) == getSyncStatus(s, 0).lastSyncTime

\* C38: the persisted lastSyncTime changes only in the step that records a
\* sync whose attempt sent all batches successfully; a sync that ends with a
\* missing credential or with exhausted retries leaves it as it was.
C38_LastSyncTimeOnlyOnSuccess ==
    [][lastSyncTimeOf(storage') # lastSyncTimeOf(storage)
          => \E r \in Runs : SuccessStep(r)]_vars


\* getActivityInfo() with Date.now() = t.
getActivityInfo(context, t) ==
    [lastActivityTime |-> context.lastActivityTime,
     isActive |-> context.isActive /\ t - context.lastActivityTime <= IDLE_THRESHOLD,
     idleThreshold |-> IDLE_THRESHOLD,
     activeStartTime |-> context.activeStartTime]

\* C39: right after trackActivity has folded a pulse, whatever came before
\* (an idle period longer than the idle threshold included), isActive()
\* returns true and getActivityInfo().isActive is true.
C39_PulseMeansActive ==
    [][FoldStep => /\ isActive(ctx', now')
                   /\ getActivityInfo(ctx', now').isActive]_vars

====
